---- MODULE Spec2Model ----
(***************************************************************************)
(* A model of the wowmysql-go client SDK: the fluent QueryBuilder and its  *)
(* request bodies, the data client's transport and error taxonomy, and the *)
(* storage client's quota-guarded upload.                                  *)
(*                                                                         *)
(* Go values are encoded so that values of different Go types never meet   *)
(* in one comparison:                                                      *)
(*   - an interface{} / JSON scalar is a tagged tuple: <<"nil">>,          *)
(*     <<"int", n>>, <<"str", s>>;                                         *)
(*   - a *int is a sequence of length 0 (nil) or 1 (pointer to a value);   *)
(*   - a map[string]interface{} is a function from its keys;               *)
(*   - a byte slice holding JSON is a document record [t |-> ...].         *)
(***************************************************************************)
EXTENDS Integers, Sequences, FiniteSets, TLC

VARIABLES
    qb,     \* the QueryBuilder under construction (query_builder.go:38-47)
    hist,   \* the mutator calls made on qb since it was constructed, in order
            \* (First's own Limit(1) included, logged once when repeated)
    call,   \* the operation invoked last, with its inputs
    sent,   \* the HTTP requests issued by the operation invoked last, in order
    ret,    \* what the operation invoked last returned
    sc,     \* the StorageClient (storage.go:14-19)
    ac,     \* the AuthClient (auth_client.go:24-30)
    proc,   \* per caller: the AuthClient call in progress and where it stands
    overlap, \* whether two AuthClient calls have ever been in progress at once
    held    \* a QueryBuilder returned by an earlier Table call and still in use

vars == <<qb, hist, call, sent, ret, sc, ac, proc, overlap, held>>

\* What the methods of the builder qb leave alone, and what the clients' do.
authVars == <<ac, proc, overlap>>
outsideBuilder == <<sc, authVars, held>>
builderVars == <<qb, hist, held>>

(***************************************************************************)
(* Bounds of the model.                                                    *)
(***************************************************************************)
MaxCalls == 2       \* mutator calls chained on one builder

(***************************************************************************)
(* Go values.                                                              *)
(***************************************************************************)
JNil == <<"nil">>
JInt(n) == <<"int", n>>
JStr(s) == <<"str", s>>

NilPtr == <<>>
PtrTo(n) == <<n>>

\* The nil error.
NoErr == [type |-> "nil"]

(***************************************************************************)
(* query_builder.go: operators and sort directions.                        *)
(***************************************************************************)
OpEq == "eq"
OpNeq == "neq"
OpGt == "gt"
OpGte == "gte"
OpLt == "lt"
OpLte == "lte"
OpLike == "like"
OpIsNull == "is"

SortAsc == "asc"
SortDesc == "desc"

FilterExpression(column, operator, value) ==
    [Column |-> column, Operator |-> operator, Value |-> value]

(***************************************************************************)
(* JSON documents: what a byte slice holds.  A response body is garbage    *)
(* (not JSON), the literal null, or an object; a request body is absent    *)
(* (nil reader) or an object.                                              *)
(***************************************************************************)
Garbage == [t |-> "garbage"]
JNullDoc == [t |-> "null"]
JObject(m) == [t |-> "obj", m |-> m]
NoBody == [t |-> "none"]

EmptyMap == [k \in {} |-> JNil]

\* json.Unmarshal(body, &map): the map stays nil unless body is a JSON object
\* (the error is discarded by the callers; a nil map reads like an empty one).
UnmarshalMap(body) == IF body.t = "obj" THEN body.m ELSE EmptyMap

\* v, ok := m[k].(string)
IsString(m, k) == k \in DOMAIN m /\ m[k][1] = "str"

(***************************************************************************)
(* table.go (errors): the error values.                                    *)
(***************************************************************************)
\* fmt.Errorf(text + ": %w", err)
PlainError(text) == [type |-> "error", text |-> text]

NetworkError(cause) == [type |-> "NetworkError", Err |-> cause]

DomainError(type, message, statusCode, response) ==
    [type |-> type, Message |-> message, StatusCode |-> statusCode,
     Response |-> response]

\* The message both parsers extract (table.go:169-180 and 221-232).
errorMessage(statusCode, errorResponse) ==
    LET message ==
            IF IsString(errorResponse, "error") THEN errorResponse["error"][2]
            ELSE IF IsString(errorResponse, "message") THEN errorResponse["message"][2]
            ELSE IF IsString(errorResponse, "detail") THEN errorResponse["detail"][2]
            ELSE "Request failed"
    IN  IF message = "Request failed"
        THEN "Request failed with status " \o ToString(statusCode)
        ELSE message

\* Mutant of parseError: 403 falls through to the generic error.
parseErrorForbiddenGeneric(statusCode, body) ==
    LET errorResponse == UnmarshalMap(body)
        message == errorMessage(statusCode, errorResponse)
    IN  CASE statusCode = 401 ->
                DomainError("AuthenticationError", message, statusCode, errorResponse)
          [] statusCode = 404 ->
                DomainError("NotFoundError", message, statusCode, errorResponse)
          [] statusCode = 429 ->
                DomainError("RateLimitError", message, statusCode, errorResponse)
          [] OTHER ->
                DomainError("WowMySQLError", message, statusCode, errorResponse)

parseError(statusCode, body) ==
    LET errorResponse == UnmarshalMap(body)
        message == errorMessage(statusCode, errorResponse)
    IN  CASE statusCode \in {401, 403} ->
                DomainError("AuthenticationError", message, statusCode, errorResponse)
          [] statusCode = 404 ->
                DomainError("NotFoundError", message, statusCode, errorResponse)
          [] statusCode = 429 ->
                DomainError("RateLimitError", message, statusCode, errorResponse)
          [] OTHER ->
                DomainError("WowMySQLError", message, statusCode, errorResponse)

(***************************************************************************)
(* The network: what httpClient.Do and io.ReadAll give for one request.    *)
(***************************************************************************)
\* httpClient.Do returns an error: no response.
NetFail == [kind |-> "fail", cause |-> "dial tcp: connection refused"]
\* A response arrives but reading its body fails.
ReadFail(status) == [kind |-> "readfail", status |-> status]
\* A response arrives in full.
Resp(status, body) == [kind |-> "resp", status |-> status, body |-> body]

projectURL == "https://your-project.wowmysql.com"
apiKey == "your-api-key"

\* json.Marshal of a FilterExpression: the struct tags of query_builder.go:31-35;
\* `value,omitempty` drops a nil interface value.
\* Mutant of MarshalFilter: the tag without omitempty, a nil value is sent.
MarshalFilterNoOmit(f) ==
    [column |-> f.Column, operator |-> f.Operator, value |-> f.Value]

MarshalFilter(f) ==
    IF f.Value = JNil
    THEN [column |-> f.Column, operator |-> f.Operator]
    ELSE [column |-> f.Column, operator |-> f.Operator, value |-> f.Value]

MarshalFilters(fs) == [i \in 1..Len(fs) |-> MarshalFilter(fs[i])]

\* Go values passed as interface{} bodies: the untyped nil, a nil map, a map.
NilBody == [t |-> "nil"]
NilMap == [t |-> "nilmap"]
GoMap(m) == [t |-> "map", m |-> m]

\* json.Marshal of a map[string]interface{} the data client sends: `filters`
\* holds []FilterExpression and `data` a map; strings, ints and string slices
\* are encoded as they are.  A nil map is encoded as null.
MarshalBody(body) ==
    IF body.t = "nilmap" THEN JNullDoc
    ELSE JObject([k \in DOMAIN body.m |->
                    CASE k = "filters" -> MarshalFilters(body.m[k])
                      [] k = "data" -> IF body.m[k].t = "nilmap" THEN JNullDoc
                                       ELSE JObject(body.m[k].m)
                      [] OTHER -> body.m[k]])

\* The headers Client.doRequest sets (storage.go:430-432).
ClientHeader ==
    [h \in {"Content-Type", "Accept", "Authorization"} |->
        IF h = "Authorization" THEN "Bearer " \o apiKey ELSE "application/json"]

Request(method, url, header, body) ==
    [method |-> method, url |-> url, header |-> header, body |-> body]

\* Mutant of ClientDoRequest: a request that got no 2xx answer is sent again.
ClientDoRequestRetry(method, path, body, net) ==
    LET req == Request(method, projectURL \o path, ClientHeader,
                       IF body.t = "nil" THEN NoBody ELSE MarshalBody(body))
    IN  CASE net.kind = "fail" ->
                [reqs |-> <<req, req>>, data |-> NoBody, err |-> NetworkError(net.cause)]
          [] net.kind = "readfail" ->
                [reqs |-> <<req, req>>, data |-> NoBody,
                 err |-> PlainError("failed to read response body")]
          [] net.kind = "resp" /\ (net.status < 200 \/ net.status >= 300) ->
                [reqs |-> <<req, req>>, data |-> NoBody,
                 err |-> parseError(net.status, net.body)]
          [] OTHER ->
                [reqs |-> <<req>>, data |-> net.body, err |-> NoErr]

\* Client.doRequest (the data client, storage.go:413-450).  The result holds
\* the requests issued, the response bytes and the error.
\* Mutant of ClientDoRequest: a connectivity failure is returned as the
\* generic domain error, without a message.
ClientDoRequestDomainOnFail(method, path, body, net) ==
    LET req == Request(method, projectURL \o path, ClientHeader,
                       IF body.t = "nil" THEN NoBody ELSE MarshalBody(body))
    IN  CASE net.kind = "fail" ->
                [reqs |-> <<req>>, data |-> NoBody,
                 err |-> DomainError("WowMySQLError", "", 0, EmptyMap)]
          [] net.kind = "readfail" ->
                [reqs |-> <<req>>, data |-> NoBody,
                 err |-> PlainError("failed to read response body")]
          [] net.kind = "resp" /\ (net.status < 200 \/ net.status >= 300) ->
                [reqs |-> <<req>>, data |-> NoBody,
                 err |-> parseError(net.status, net.body)]
          [] OTHER ->
                [reqs |-> <<req>>, data |-> net.body, err |-> NoErr]

ClientDoRequest(method, path, body, net) ==
    LET req == Request(method, projectURL \o path, ClientHeader,
                       IF body.t = "nil" THEN NoBody ELSE MarshalBody(body))
    IN  CASE net.kind = "fail" ->
                [reqs |-> <<req>>, data |-> NoBody, err |-> NetworkError(net.cause)]
          [] net.kind = "readfail" ->
                [reqs |-> <<req>>, data |-> NoBody,
                 err |-> PlainError("failed to read response body")]
          [] net.kind = "resp" /\ (net.status < 200 \/ net.status >= 300) ->
                [reqs |-> <<req>>, data |-> NoBody,
                 err |-> parseError(net.status, net.body)]
          [] OTHER ->
                [reqs |-> <<req>>, data |-> net.body, err |-> NoErr]


(***************************************************************************)
(* models.go: the typed responses and their decoding (json.Unmarshal).     *)
(***************************************************************************)
NilVal == [t |-> "nil"]

\* json.Unmarshal(resp, &QueryResponse{}): garbage is an error; null leaves the
\* zero value; a missing `data` leaves Data nil (length 0).
UnmarshalQueryResponse(doc) ==
    CASE doc.t = "obj" ->
            [ok |-> TRUE,
             val |-> [t |-> "QueryResponse",
                      Data |-> IF "data" \in DOMAIN doc.m THEN doc.m["data"] ELSE <<>>,
                      Count |-> IF "count" \in DOMAIN doc.m THEN doc.m["count"] ELSE 0]]
      [] doc.t = "null" ->
            [ok |-> TRUE, val |-> [t |-> "QueryResponse", Data |-> <<>>, Count |-> 0]]
      [] OTHER -> [ok |-> FALSE, val |-> NilVal]

\* json.Unmarshal into UpdateResponse / DeleteResponse.
UnmarshalAffected(type, doc) ==
    CASE doc.t = "obj" ->
            [ok |-> TRUE,
             val |-> [t |-> type,
                      AffectedRows |-> IF "affected_rows" \in DOMAIN doc.m
                                       THEN doc.m["affected_rows"] ELSE 0,
                      Success |-> IF "success" \in DOMAIN doc.m
                                  THEN doc.m["success"] ELSE FALSE]]
      [] doc.t = "null" ->
            [ok |-> TRUE, val |-> [t |-> type, AffectedRows |-> 0, Success |-> FALSE]]
      [] OTHER -> [ok |-> FALSE, val |-> NilVal]

(***************************************************************************)
(* query_builder.go: the builder.                                          *)
(***************************************************************************)
\* &QueryBuilder{client, tableName, columns, filters: make(.., 0)}
NewQueryBuilder(tableName, columns) ==
    [tableName |-> tableName, columns |-> columns, filters |-> <<>>,
     orderColumn |-> "", orderDirection |-> "",
     limitValue |-> NilPtr, offsetValue |-> NilPtr]

\* Mutant of qbSelect: the columns are added to those already selected.
qbSelectAdditive(q, columns) == [q EXCEPT !.columns = @ \o columns]

qbSelect(q, columns) == [q EXCEPT !.columns = columns]

qbAppend(q, column, operator, value) ==
    [q EXCEPT !.filters = Append(@, FilterExpression(column, operator, value))]

qbEq(q, column, value) == qbAppend(q, column, OpEq, value)
qbNeq(q, column, value) == qbAppend(q, column, OpNeq, value)
qbGt(q, column, value) == qbAppend(q, column, OpGt, value)
\* Mutant of qbGte: the operator of Gt, copied.
qbGteAsGt(q, column, value) == qbAppend(q, column, OpGt, value)
qbGte(q, column, value) == qbAppend(q, column, OpGte, value)
qbLt(q, column, value) == qbAppend(q, column, OpLt, value)
qbLte(q, column, value) == qbAppend(q, column, OpLte, value)
\* pattern is a Go string, stored in the interface{} field
qbLike(q, column, pattern) == qbAppend(q, column, OpLike, JStr(pattern))
\* Value is left at its zero value, the nil interface
qbIsNull(q, column) == qbAppend(q, column, OpIsNull, JNil)

qbOrderBy(q, column, direction) ==
    [q EXCEPT !.orderColumn = column, !.orderDirection = direction]

qbLimit(q, limit) == [q EXCEPT !.limitValue = PtrTo(limit)]

qbOffset(q, offset) == [q EXCEPT !.offsetValue = PtrTo(offset)]

\* Mutant of buildQueryBody: limit and offset are tested for truth, so a zero
\* is dropped like an unset value.
buildQueryBodyTruthy(q) ==
    LET keys == (IF Len(q.columns) > 0 THEN {"columns"} ELSE {})
                \cup (IF Len(q.filters) > 0 THEN {"filters"} ELSE {})
                \cup (IF q.orderColumn # "" THEN {"order_by", "order_direction"} ELSE {})
                \cup (IF q.limitValue # NilPtr /\ q.limitValue # PtrTo(0)
                      THEN {"limit"} ELSE {})
                \cup (IF q.offsetValue # NilPtr /\ q.offsetValue # PtrTo(0)
                      THEN {"offset"} ELSE {})
    IN  [k \in keys |->
            CASE k = "columns" -> q.columns
              [] k = "filters" -> q.filters
              [] k = "order_by" -> q.orderColumn
              [] k = "order_direction" -> q.orderDirection
              [] k = "limit" -> q.limitValue[1]
              [] k = "offset" -> q.offsetValue[1]]

\* buildQueryBody: the Go map, one key per non-default piece of state.
buildQueryBody(q) ==
    LET keys == (IF Len(q.columns) > 0 THEN {"columns"} ELSE {})
                \cup (IF Len(q.filters) > 0 THEN {"filters"} ELSE {})
                \cup (IF q.orderColumn # "" THEN {"order_by", "order_direction"} ELSE {})
                \cup (IF q.limitValue # NilPtr THEN {"limit"} ELSE {})
                \cup (IF q.offsetValue # NilPtr THEN {"offset"} ELSE {})
    IN  [k \in keys |->
            CASE k = "columns" -> q.columns
              [] k = "filters" -> q.filters
              [] k = "order_by" -> q.orderColumn
              [] k = "order_direction" -> q.orderDirection
              [] k = "limit" -> q.limitValue[1]
              [] k = "offset" -> q.offsetValue[1]]

QueryPath(tableName) == "/api/v1/tables/" \o tableName \o "/query"
TablePath(tableName) == "/api/v1/tables/" \o tableName

\* Execute: what it issues and returns.
qbExecute(q, net) ==
    LET body == buildQueryBody(q)
        resp == ClientDoRequest("POST", QueryPath(q.tableName), GoMap(body), net)
        result == UnmarshalQueryResponse(resp.data)
    IN  IF resp.err.type # "nil"
        THEN [reqs |-> resp.reqs, val |-> NilVal, err |-> resp.err]
        ELSE IF ~result.ok
        THEN [reqs |-> resp.reqs, val |-> NilVal,
              err |-> PlainError("failed to parse response")]
        ELSE [reqs |-> resp.reqs, val |-> result.val, err |-> NoErr]

\* Mutant of qbFirst: Limit(1) only when the chain set no limit.
qbFirstKeepLimit(q, net) ==
    LET q1 == IF q.limitValue = NilPtr THEN qbLimit(q, 1) ELSE q
        r == qbExecute(q1, net)
    IN  IF r.err.type # "nil"
        THEN [qb |-> q1, reqs |-> r.reqs, val |-> NilVal, err |-> r.err]
        ELSE IF Len(r.val.Data) = 0
        THEN [qb |-> q1, reqs |-> r.reqs, val |-> NilVal, err |-> NoErr]
        ELSE [qb |-> q1, reqs |-> r.reqs,
              val |-> [t |-> "row", m |-> r.val.Data[1]], err |-> NoErr]

\* Mutant of qbFirst: the offset of the chain is dropped with the limit.
qbFirstDropOffset(q, net) ==
    LET q1 == [qbLimit(q, 1) EXCEPT !.offsetValue = NilPtr]
        r == qbExecute(q1, net)
    IN  IF r.err.type # "nil"
        THEN [qb |-> q1, reqs |-> r.reqs, val |-> NilVal, err |-> r.err]
        ELSE IF Len(r.val.Data) = 0
        THEN [qb |-> q1, reqs |-> r.reqs, val |-> NilVal, err |-> NoErr]
        ELSE [qb |-> q1, reqs |-> r.reqs,
              val |-> [t |-> "row", m |-> r.val.Data[1]], err |-> NoErr]

\* Mutant of qbFirst: an empty result is reported as an error.
qbFirstNoRowsError(q, net) ==
    LET q1 == qbLimit(q, 1)
        r == qbExecute(q1, net)
    IN  IF r.err.type # "nil"
        THEN [qb |-> q1, reqs |-> r.reqs, val |-> NilVal, err |-> r.err]
        ELSE IF Len(r.val.Data) = 0
        THEN [qb |-> q1, reqs |-> r.reqs, val |-> NilVal,
              err |-> PlainError("no rows in result set")]
        ELSE [qb |-> q1, reqs |-> r.reqs,
              val |-> [t |-> "row", m |-> r.val.Data[1]], err |-> NoErr]

\* First: Limit(1), then Execute, then the first row or (nil, nil).
qbFirst(q, net) ==
    LET q1 == qbLimit(q, 1)
        r == qbExecute(q1, net)
    IN  IF r.err.type # "nil"
        THEN [qb |-> q1, reqs |-> r.reqs, val |-> NilVal, err |-> r.err]
        ELSE IF Len(r.val.Data) = 0
        THEN [qb |-> q1, reqs |-> r.reqs, val |-> NilVal, err |-> NoErr]
        ELSE [qb |-> q1, reqs |-> r.reqs,
              val |-> [t |-> "row", m |-> r.val.Data[1]], err |-> NoErr]

\* Mutant of qbUpdate: the body is the query body with `data` added.
qbUpdateQueryBody(q, data, net) ==
    LET query == buildQueryBody(q)
        body == [k \in {"data"} \cup DOMAIN query |->
                    IF k = "data" THEN data ELSE query[k]]
        resp == ClientDoRequest("PUT", TablePath(q.tableName), GoMap(body), net)
        result == UnmarshalAffected("UpdateResponse", resp.data)
    IN  IF resp.err.type # "nil"
        THEN [reqs |-> resp.reqs, val |-> NilVal, err |-> resp.err]
        ELSE IF ~result.ok
        THEN [reqs |-> resp.reqs, val |-> NilVal,
              err |-> PlainError("failed to parse response")]
        ELSE [reqs |-> resp.reqs, val |-> result.val, err |-> NoErr]

\* Update: {data, filters?} by PUT on the table's resource.
qbUpdate(q, data, net) ==
    LET keys == {"data"} \cup (IF Len(q.filters) > 0 THEN {"filters"} ELSE {})
        body == [k \in keys |-> IF k = "data" THEN data ELSE q.filters]
        resp == ClientDoRequest("PUT", TablePath(q.tableName), GoMap(body), net)
        result == UnmarshalAffected("UpdateResponse", resp.data)
    IN  IF resp.err.type # "nil"
        THEN [reqs |-> resp.reqs, val |-> NilVal, err |-> resp.err]
        ELSE IF ~result.ok
        THEN [reqs |-> resp.reqs, val |-> NilVal,
              err |-> PlainError("failed to parse response")]
        ELSE [reqs |-> resp.reqs, val |-> result.val, err |-> NoErr]

\* Mutant of qbDelete: a builder without filters is refused on the client.
qbDeleteGuarded(q, net) ==
    LET keys == IF Len(q.filters) > 0 THEN {"filters"} ELSE {}
        body == [k \in keys |-> q.filters]
        resp == ClientDoRequest("DELETE", TablePath(q.tableName), GoMap(body), net)
        result == UnmarshalAffected("DeleteResponse", resp.data)
    IN  IF Len(q.filters) = 0
        THEN [reqs |-> <<>>, val |-> NilVal,
              err |-> PlainError("delete requires at least one filter")]
        ELSE IF resp.err.type # "nil"
        THEN [reqs |-> resp.reqs, val |-> NilVal, err |-> resp.err]
        ELSE IF ~result.ok
        THEN [reqs |-> resp.reqs, val |-> NilVal,
              err |-> PlainError("failed to parse response")]
        ELSE [reqs |-> resp.reqs, val |-> result.val, err |-> NoErr]

\* Delete: {filters?} by DELETE on the table's resource.
qbDelete(q, net) ==
    LET keys == IF Len(q.filters) > 0 THEN {"filters"} ELSE {}
        body == [k \in keys |-> q.filters]
        resp == ClientDoRequest("DELETE", TablePath(q.tableName), GoMap(body), net)
        result == UnmarshalAffected("DeleteResponse", resp.data)
    IN  IF resp.err.type # "nil"
        THEN [reqs |-> resp.reqs, val |-> NilVal, err |-> resp.err]
        ELSE IF ~result.ok
        THEN [reqs |-> resp.reqs, val |-> NilVal,
              err |-> PlainError("failed to parse response")]
        ELSE [reqs |-> resp.reqs, val |-> result.val, err |-> NoErr]


(***************************************************************************)
(* auth_client.go: the auth client and its base URL.  The strings that     *)
(* buildAuthBaseURL takes apart are sequences of characters.               *)
(***************************************************************************)
Whitespace == {" ", "\t", "\n", "\r"}

RECURSIVE TrimLeft(_)
TrimLeft(s) == IF s # <<>> /\ Head(s) \in Whitespace THEN TrimLeft(Tail(s)) ELSE s

RECURSIVE TrimRight(_)
TrimRight(s) ==
    IF s # <<>> /\ s[Len(s)] \in Whitespace
    THEN TrimRight(SubSeq(s, 1, Len(s) - 1)) ELSE s

\* strings.TrimSpace
TrimSpace(s) == TrimRight(TrimLeft(s))

\* strings.HasPrefix, strings.HasSuffix, strings.TrimSuffix, strings.Contains
HasPrefix(s, prefix) ==
    Len(s) >= Len(prefix) /\ SubSeq(s, 1, Len(prefix)) = prefix

HasSuffix(s, suffix) ==
    Len(s) >= Len(suffix) /\ SubSeq(s, Len(s) - Len(suffix) + 1, Len(s)) = suffix

TrimSuffix(s, suffix) ==
    IF HasSuffix(s, suffix) THEN SubSeq(s, 1, Len(s) - Len(suffix)) ELSE s

Contains(s, substr) ==
    \E i \in 0..(Len(s) - Len(substr)) : SubSeq(s, i + 1, i + Len(substr)) = substr

SchemeHTTP == <<"h", "t", "t", "p", ":", "/", "/">>
SchemeHTTPS == <<"h", "t", "t", "p", "s", ":", "/", "/">>
\* "wowmysql.com"
DefaultBaseDomain ==
    <<"w", "o", "w", "m", "y", "s", "q", "l", ".", "c", "o", "m">>
Slash == <<"/">>
Dot == <<".">>
ApiSegment == <<"/", "a", "p", "i">>
AuthSuffix == <<"/", "a", "p", "i", "/", "a", "u", "t", "h">>

\* TrimSuffix "/" and then, once, TrimSuffix "/api" (auth_client.go:387-390
\* and 410-413).
stripSlashAndApi(u) == TrimSuffix(TrimSuffix(u, Slash), ApiSegment)

\* Mutant of buildAuthBaseURL: the trailing /api is left in place.
buildAuthBaseURLKeepApi(rawProjectURL, baseDomainGiven, secure) ==
    LET baseDomain == IF baseDomainGiven = <<>> THEN DefaultBaseDomain
                      ELSE baseDomainGiven
        normalized == TrimSpace(rawProjectURL)
        protocol == IF secure THEN SchemeHTTPS ELSE SchemeHTTP
    IN  IF HasPrefix(normalized, SchemeHTTP) \/ HasPrefix(normalized, SchemeHTTPS)
        THEN TrimSuffix(normalized, Slash) \o AuthSuffix
        ELSE IF Contains(normalized, Dot \o baseDomain)
                    \/ HasSuffix(normalized, baseDomain)
        THEN TrimSuffix(protocol \o normalized, Slash) \o AuthSuffix
        ELSE TrimSuffix(protocol \o normalized \o Dot \o baseDomain, Slash)
                 \o AuthSuffix

buildAuthBaseURL(rawProjectURL, baseDomainGiven, secure) ==
    LET baseDomain == IF baseDomainGiven = <<>> THEN DefaultBaseDomain
                      ELSE baseDomainGiven
        normalized == TrimSpace(rawProjectURL)
        protocol == IF secure THEN SchemeHTTPS ELSE SchemeHTTP
    IN  IF HasPrefix(normalized, SchemeHTTP) \/ HasPrefix(normalized, SchemeHTTPS)
        THEN stripSlashAndApi(normalized) \o AuthSuffix
        ELSE IF Contains(normalized, Dot \o baseDomain)
                    \/ HasSuffix(normalized, baseDomain)
        THEN stripSlashAndApi(protocol \o normalized) \o AuthSuffix
        ELSE stripSlashAndApi(protocol \o normalized \o Dot \o baseDomain)
                 \o AuthSuffix

\* AuthConfig; Timeout is in seconds, 0 when not set.
AuthConfig(rawProjectURL, baseDomain, secure, timeout, publicAPIKey) ==
    [ProjectURL |-> rawProjectURL, BaseDomain |-> baseDomain, Secure |-> secure,
     Timeout |-> timeout, PublicAPIKey |-> publicAPIKey]

DefaultAuthTimeout == 30

\* NewAuthClient: the tokens start empty.
newAuthClient(config) ==
    [baseURL |-> buildAuthBaseURL(config.ProjectURL, config.BaseDomain, config.Secure),
     publicKey |-> config.PublicAPIKey,
     timeout |-> IF config.Timeout = 0 THEN DefaultAuthTimeout ELSE config.Timeout,
     accessToken |-> "", refreshToken |-> ""]

\* "https://your-project.wowmysql.com"
ReadmeProjectURL ==
    <<"h", "t", "t", "p", "s", ":", "/", "/", "y", "o", "u", "r", "-", "p",
      "r", "o", "j", "e", "c", "t", ".", "w", "o", "w", "m", "y", "s", "q",
      "l", ".", "c", "o", "m">>

\* The configuration the README builds its auth client with.
ReadmeAuthConfig == AuthConfig(ReadmeProjectURL, <<>>, FALSE, 0, "public-api-key")

\* The callers that may use one AuthClient at a time, and a caller at rest.
Callers == {1, 2}
IdleCall == [pc |-> "idle"]

(***************************************************************************)
(* Inputs of the query-builder specification.                              *)
(***************************************************************************)
TableNames == {"users"}
ColumnLists == {<<>>, <<"a", "b">>}
\* (column, value) of Neq, Gt, Gte, Lt, Lte
FilterArgs == {<<"age", JInt(30)>>}
\* (column, value) of Eq: also an empty column name and a nil value
EqArgs == FilterArgs \cup {<<"", JNil>>}
\* (column, pattern) of Like
LikeArgs == {<<"email", "%@example.com">>}
IsNullColumns == {"deleted_at", ""}
\* (column, direction) of OrderBy
OrderArgs == {<<"created_at", SortDesc>>, <<"", SortAsc>>}
Limits == {-1, 0, 5}
Offsets == {-1, 0}
UpdateData == {GoMap([name |-> JStr("John Smith")])}
\* id of GetByID
IdValues == {JInt(7), JStr("abc"), JNil}

Row1 == [id |-> JInt(1)]
Row2 == [id |-> JInt(2)]
QueryDoc(rows) == JObject([data |-> rows, count |-> Len(rows)])
AffectedDoc == JObject([affected_rows |-> 1, success |-> TRUE])
ErrorDoc == JObject([error |-> JStr("no such table")])

\* What the network gives a query and a write.
QueryNet == {Resp(200, QueryDoc(<<Row1, Row2>>)), Resp(404, ErrorDoc)}
FirstNet == {NetFail, Resp(200, QueryDoc(<<Row1, Row2>>)), Resp(200, QueryDoc(<<>>)),
             Resp(200, JObject(EmptyMap)), Resp(200, Garbage)}
WriteNet == {Resp(200, AffectedDoc), Resp(500, ErrorDoc)}

NoRet == [val |-> NilVal, err |-> NoErr]

(***************************************************************************)
(* table.go: the entry points that construct a builder.                    *)
(***************************************************************************)
\* Table.Select(columns...)
TableSelect(tableName, columns) ==
    /\ qb' = NewQueryBuilder(tableName, columns)
    /\ hist' = <<[op |-> "Select", columns |-> columns]>>
    /\ call' = [op |-> "Table.Select"]
    /\ sent' = <<>>
    /\ ret' = NoRet
    /\ UNCHANGED outsideBuilder

\* The record of a filter mutator call in the history of a builder.
FilterCall(op, column, value) == [op |-> op, column |-> column, value |-> value]

\* t.Select(columns...): a builder with these columns and no filter
tableSelect(tableName, columns) == NewQueryBuilder(tableName, columns)

\* return t.Select("*")
tableGet(tableName) == tableSelect(tableName, <<"*">>)

\* Mutant of tableGetByID: the limit is left out.
tableGetByIDUnlimited(tableName, id) == qbEq(tableSelect(tableName, <<"*">>), "id", id)

\* return t.Select("*").Eq("id", id).Limit(1)
tableGetByID(tableName, id) ==
    qbLimit(qbEq(tableSelect(tableName, <<"*">>), "id", id), 1)

\* Table.Get(): the calls it makes are the builder's history.
TableGet(tableName) ==
    /\ qb' = tableGet(tableName)
    /\ hist' = <<[op |-> "Select", columns |-> <<"*">>]>>
    /\ call' = [op |-> "Table.Get", tableName |-> tableName]
    /\ sent' = <<>>
    /\ ret' = NoRet
    /\ UNCHANGED outsideBuilder

\* Table.GetByID(id)
TableGetByID(tableName, id) ==
    /\ qb' = tableGetByID(tableName, id)
    /\ hist' = <<[op |-> "Select", columns |-> <<"*">>],
                 FilterCall("Eq", "id", id), [op |-> "Limit", n |-> 1]>>
    /\ call' = [op |-> "Table.GetByID", tableName |-> tableName, id |-> id]
    /\ sent' = <<>>
    /\ ret' = NoRet
    /\ UNCHANGED outsideBuilder

\* &QueryBuilder{client, tableName, filters: make(.., 0)}: no columns
tableWhere(tableName) == NewQueryBuilder(tableName, <<>>)

\* Mutant of tableUpdateByID: the builder is not narrowed to the id.
tableUpdateByIDUnfiltered(tableName, id, data, net) ==
    qbUpdate(tableWhere(tableName), data, net)

\* return t.Where().Eq("id", id).Update(data)
tableUpdateByID(tableName, id, data, net) ==
    qbUpdate(qbEq(tableWhere(tableName), "id", id), data, net)

\* return t.Where().Eq("id", id).Delete()
tableDeleteByID(tableName, id, net) ==
    qbDelete(qbEq(tableWhere(tableName), "id", id), net)

\* Table.UpdateByID(id, data): the builder it runs on is its own.
UpdateByID(tableName, id, data, net) ==
    \E r \in {tableUpdateByID(tableName, id, data, net)} :
        /\ call' = [op |-> "UpdateByID", tableName |-> tableName, id |-> id,
                    data |-> data, net |-> net]
        /\ sent' = r.reqs
        /\ ret' = [val |-> r.val, err |-> r.err]
        /\ UNCHANGED <<qb, hist, outsideBuilder>>

\* Table.DeleteByID(id)
DeleteByID(tableName, id, net) ==
    \E r \in {tableDeleteByID(tableName, id, net)} :
        /\ call' = [op |-> "DeleteByID", tableName |-> tableName, id |-> id,
                    net |-> net]
        /\ sent' = r.reqs
        /\ ret' = [val |-> r.val, err |-> r.err]
        /\ UNCHANGED <<qb, hist, outsideBuilder>>

\* A Table call made while the builder of an earlier call is still in use:
\* the earlier builder is held, the new one is the builder under construction.
SecondBuilder(q, entries, op) ==
    /\ held' = qb
    /\ qb' = q
    /\ hist' = entries
    /\ call' = [op |-> op, second |-> TRUE]
    /\ sent' = <<>>
    /\ ret' = NoRet
    /\ UNCHANGED <<sc, authVars>>

SecondWhere(tableName) == SecondBuilder(tableWhere(tableName), <<>>, "Table.Where")

SecondSelect(tableName, columns) ==
    SecondBuilder(tableSelect(tableName, columns),
                  <<[op |-> "Select", columns |-> columns]>>, "Table.Select")

\* Table.Where()
TableWhere(tableName) ==
    /\ qb' = tableWhere(tableName)
    /\ hist' = <<>>
    /\ call' = [op |-> "Table.Where"]
    /\ sent' = <<>>
    /\ ret' = NoRet
    /\ UNCHANGED outsideBuilder

(***************************************************************************)
(* query_builder.go: the chained mutators.  Each returns the builder it    *)
(* changed; none issues a request.                                         *)
(***************************************************************************)
Mutate(q, entry) ==
    /\ Len(hist) < MaxCalls
    /\ qb' = q
    /\ hist' = Append(hist, entry)
    /\ call' = [op |-> entry.op]
    /\ sent' = <<>>
    /\ ret' = NoRet
    /\ UNCHANGED outsideBuilder

Select(columns) == Mutate(qbSelect(qb, columns), [op |-> "Select", columns |-> columns])
Eq(column, value) == Mutate(qbEq(qb, column, value), FilterCall("Eq", column, value))
Neq(column, value) == Mutate(qbNeq(qb, column, value), FilterCall("Neq", column, value))
Gt(column, value) == Mutate(qbGt(qb, column, value), FilterCall("Gt", column, value))
Gte(column, value) == Mutate(qbGte(qb, column, value), FilterCall("Gte", column, value))
Lt(column, value) == Mutate(qbLt(qb, column, value), FilterCall("Lt", column, value))
Lte(column, value) == Mutate(qbLte(qb, column, value), FilterCall("Lte", column, value))
Like(column, pattern) ==
    Mutate(qbLike(qb, column, pattern), FilterCall("Like", column, JStr(pattern)))
IsNull(column) == Mutate(qbIsNull(qb, column), FilterCall("IsNull", column, JNil))
OrderBy(column, direction) ==
    Mutate(qbOrderBy(qb, column, direction),
           [op |-> "OrderBy", column |-> column, direction |-> direction])
Limit(limit) == Mutate(qbLimit(qb, limit), [op |-> "Limit", n |-> limit])
Offset(offset) == Mutate(qbOffset(qb, offset), [op |-> "Offset", n |-> offset])

(***************************************************************************)
(* query_builder.go: the terminal calls.                                   *)
(***************************************************************************)
Execute(net) ==
    \E r \in {qbExecute(qb, net)} :
        /\ call' = [op |-> "Execute", net |-> net]
        /\ sent' = r.reqs
        /\ ret' = [val |-> r.val, err |-> r.err]
        /\ UNCHANGED <<qb, hist, outsideBuilder>>

\* Get is an alias for Execute.
Get(net) ==
    \E r \in {qbExecute(qb, net)} :
        /\ call' = [op |-> "Get", net |-> net]
        /\ sent' = r.reqs
        /\ ret' = [val |-> r.val, err |-> r.err]
        /\ UNCHANGED <<qb, hist, outsideBuilder>>

\* First calls qb.Limit(1) itself: the call is part of the builder's history.
FirstLimit == [op |-> "Limit", n |-> 1]

First(net) ==
    \E r \in {qbFirst(qb, net)} :
        /\ call' = [op |-> "First", net |-> net]
        /\ qb' = r.qb
        /\ hist' = IF hist # <<>> /\ hist[Len(hist)] = FirstLimit
                   THEN hist ELSE Append(hist, FirstLimit)
        /\ sent' = r.reqs
        /\ ret' = [val |-> r.val, err |-> r.err]
        /\ UNCHANGED outsideBuilder

Update(data, net) ==
    \E r \in {qbUpdate(qb, data, net)} :
        /\ call' = [op |-> "Update", net |-> net, data |-> data]
        /\ sent' = r.reqs
        /\ ret' = [val |-> r.val, err |-> r.err]
        /\ UNCHANGED <<qb, hist, outsideBuilder>>

Delete(net) ==
    \E r \in {qbDelete(qb, net)} :
        /\ call' = [op |-> "Delete", net |-> net]
        /\ sent' = r.reqs
        /\ ret' = [val |-> r.val, err |-> r.err]
        /\ UNCHANGED <<qb, hist, outsideBuilder>>

(***************************************************************************)
(* The query-builder specification: one builder at a time, built by a      *)
(* Table entry point, mutated by a chain of at most MaxCalls calls, with   *)
(* terminal calls at any point of the chain.                               *)
(***************************************************************************)
Init ==
    /\ qb = NewQueryBuilder("users", <<>>)
    /\ hist = <<>>
    /\ call = [op |-> "Table.Where"]
    /\ sent = <<>>
    /\ ret = NoRet
    /\ sc = [autoCheckQuota |-> TRUE]
    /\ ac = newAuthClient(ReadmeAuthConfig)
    /\ proc = [p \in Callers |-> IdleCall]
    /\ overlap = FALSE
    /\ held = NewQueryBuilder("users", <<>>)

Next ==
    \/ \E t \in TableNames, c \in ColumnLists \cup {<<"*">>} : TableSelect(t, c)
    \/ \E t \in TableNames : TableWhere(t)
    \/ \E t \in TableNames : TableGet(t)
    \/ \E t \in TableNames, id \in IdValues : TableGetByID(t, id)
    \/ \E c \in ColumnLists : Select(c)
    \/ \E a \in EqArgs : Eq(a[1], a[2])
    \/ \E a \in FilterArgs : Neq(a[1], a[2])
    \/ \E a \in FilterArgs : Gt(a[1], a[2])
    \/ \E a \in FilterArgs : Gte(a[1], a[2])
    \/ \E a \in FilterArgs : Lt(a[1], a[2])
    \/ \E a \in FilterArgs : Lte(a[1], a[2])
    \/ \E a \in LikeArgs : Like(a[1], a[2])
    \/ \E c \in IsNullColumns : IsNull(c)
    \/ \E a \in OrderArgs : OrderBy(a[1], a[2])
    \/ \E n \in Limits : Limit(n)
    \/ \E n \in Offsets : Offset(n)
    \/ \E net \in QueryNet : Execute(net)
    \/ \E net \in QueryNet : Get(net)
    \/ \E net \in FirstNet : First(net)
    \/ \E d \in UpdateData, net \in WriteNet : Update(d, net)
    \/ \E net \in WriteNet : Delete(net)

Spec == Init /\ [][Next]_vars

(***************************************************************************)
(* What the claims speak of: the calls of the chain and the body sent.     *)
(***************************************************************************)
FilterMutators == {"Eq", "Neq", "Gt", "Gte", "Lt", "Lte", "Like", "IsNull"}

IsFilterCall(e) == e.op \in FilterMutators

\* The filter mutator calls of the chain, in call order.
FilterCalls == SelectSeq(hist, IsFilterCall)

\* The operator that belongs to each mutator.
MutatorOperator(op) ==
    CASE op = "Eq" -> "eq" [] op = "Neq" -> "neq" [] op = "Gt" -> "gt"
      [] op = "Gte" -> "gte" [] op = "Lt" -> "lt" [] op = "Lte" -> "lte"
      [] op = "Like" -> "like" [] op = "IsNull" -> "is"

HasCall(op) == \E i \in 1..Len(hist) : hist[i].op = op

\* The last call of a mutator in the chain.
LastCall(op) ==
    hist[CHOOSE i \in 1..Len(hist) :
            /\ hist[i].op = op
            /\ \A j \in (i + 1)..Len(hist) : hist[j].op # op]

\* The JSON object a request carries, as a function of its keys.
BodyOf(req) == req.body.m

\* The `filters` list of a body; absent means no entry.
WireFilters(m) == IF "filters" \in DOMAIN m THEN m["filters"] ELSE <<>>

\* The value a wire entry carries; an absent value reads as nil.
EntryValue(e) == IF "value" \in DOMAIN e THEN e["value"] ELSE JNil

\* wire has one entry per call, in call order, with the call's column and
\* value and the operator of the call's mutator.
FiltersMatchCalls(wire, calls) ==
    /\ Len(wire) = Len(calls)
    /\ \A i \in 1..Len(calls) :
        /\ wire[i]["column"] = calls[i].column
        /\ wire[i]["operator"] = MutatorOperator(calls[i].op)
        /\ EntryValue(wire[i]) = calls[i].value

TableURL(tableName) == projectURL \o "/api/v1/tables/" \o tableName

(***************************************************************************)
(* C1: the `filters` list sent by Execute has one entry per filter mutator *)
(* call of the chain, in call order; entry i carries the column and value  *)
(* of call i and the operator that belongs to the mutator of call i.       *)
(***************************************************************************)
C1_FiltersInCallOrder ==
    call.op = "Execute" =>
        /\ Len(sent) = 1
        /\ FiltersMatchCalls(WireFilters(BodyOf(sent[1])), FilterCalls)

\* Execute has sent two filters added by two different mutators.
C1_Witness ==
    /\ call.op = "Execute"
    /\ Len(sent) = 1
    /\ Len(WireFilters(BodyOf(sent[1]))) = 2
    /\ WireFilters(BodyOf(sent[1]))[1]["operator"]
         # WireFilters(BodyOf(sent[1]))[2]["operator"]

(***************************************************************************)
(* C2: the body built by Execute has `columns` iff the column list is not  *)
(* empty, `filters` iff a filter was added, `order_by` and                 *)
(* `order_direction` iff an order is set (a non-empty order column),       *)
(* `limit` iff Limit was called and `offset` iff Offset was called, each   *)
(* with exactly the value passed, zero and negative integers included; it  *)
(* has no other key, and no key with an empty list.                        *)
(***************************************************************************)
C2_KeysIffSet ==
    call.op = "Execute" =>
        LET m == BodyOf(sent[1])
            cols == IF HasCall("Select") THEN LastCall("Select").columns ELSE <<>>
            ordered == HasCall("OrderBy") /\ LastCall("OrderBy").column # ""
        IN  /\ DOMAIN m \subseteq {"columns", "filters", "order_by",
                                   "order_direction", "limit", "offset"}
            /\ "columns" \in DOMAIN m <=> cols # <<>>
            /\ "columns" \in DOMAIN m => m["columns"] = cols
            /\ "filters" \in DOMAIN m <=> FilterCalls # <<>>
            /\ "filters" \in DOMAIN m => Len(m["filters"]) = Len(FilterCalls)
            /\ "order_by" \in DOMAIN m <=> ordered
            /\ "order_direction" \in DOMAIN m <=> ordered
            /\ ordered => /\ m["order_by"] = LastCall("OrderBy").column
                          /\ m["order_direction"] = LastCall("OrderBy").direction
            /\ "limit" \in DOMAIN m <=> HasCall("Limit")
            /\ HasCall("Limit") => m["limit"] = LastCall("Limit").n
            /\ "offset" \in DOMAIN m <=> HasCall("Offset")
            /\ HasCall("Offset") => m["offset"] = LastCall("Offset").n
            /\ (hist = <<>> => DOMAIN m = {})

\* Execute has sent limit 0 and a negative offset, and nothing else.
C2_Witness ==
    /\ call.op = "Execute"
    /\ DOMAIN BodyOf(sent[1]) = {"limit", "offset"}
    /\ BodyOf(sent[1])["limit"] = 0
    /\ BodyOf(sent[1])["offset"] < 0

(***************************************************************************)
(* C3: Update(data) sends exactly one PUT request to                       *)
(* /api/v1/tables/{table}; its body has the key `data` and, iff the        *)
(* builder holds a filter, the key `filters` with the builder's filters in *)
(* order, and no other key whatever else the builder holds; a builder      *)
(* without filters is sent all the same.                                   *)
(***************************************************************************)
C3_UpdateBody ==
    call.op = "Update" =>
        /\ Len(sent) = 1
        /\ sent[1].method = "PUT"
        /\ sent[1].url = TableURL(qb.tableName)
        /\ DOMAIN BodyOf(sent[1])
             = {"data"} \cup (IF FilterCalls # <<>> THEN {"filters"} ELSE {})
        /\ BodyOf(sent[1])["data"] = JObject(call.data.m)
        /\ FiltersMatchCalls(WireFilters(BodyOf(sent[1])), FilterCalls)

\* Update on a builder with a limit and no filter: the request went out.
C3_Witness ==
    /\ call.op = "Update"
    /\ qb.filters = <<>>
    /\ qb.limitValue # NilPtr
    /\ Len(sent) = 1
    /\ DOMAIN BodyOf(sent[1]) = {"data"}

(***************************************************************************)
(* C4: Delete() sends exactly one DELETE request to                        *)
(* /api/v1/tables/{table}; its body has the key `filters` iff the builder  *)
(* holds a filter, and no other key; without filters the body is the empty *)
(* object and the request is still sent.                                   *)
(***************************************************************************)
C4_DeleteBody ==
    call.op = "Delete" =>
        /\ Len(sent) = 1
        /\ sent[1].method = "DELETE"
        /\ sent[1].url = TableURL(qb.tableName)
        /\ sent[1].body.t = "obj"
        /\ DOMAIN BodyOf(sent[1]) = (IF FilterCalls # <<>> THEN {"filters"} ELSE {})
        /\ FiltersMatchCalls(WireFilters(BodyOf(sent[1])), FilterCalls)

\* Delete on a builder without filters: the empty object was sent.
C4_Witness ==
    /\ call.op = "Delete"
    /\ qb.filters = <<>>
    /\ Len(sent) = 1
    /\ sent[1].body.t = "obj"
    /\ DOMAIN BodyOf(sent[1]) = {}

(***************************************************************************)
(* C9: First() on a successful response with zero rows returns (nil, nil), *)
(* on a response with at least one row the first row in server order; it   *)
(* returns an error only when the underlying Execute returns one.          *)
(***************************************************************************)
\* A 2xx response whose body decodes into a QueryResponse.
IsQuerySuccess(net) ==
    /\ net.kind = "resp"
    /\ net.status \in 200..299
    /\ net.body.t \in {"obj", "null"}

\* The rows of a successful response, in server order.
ServerRows(net) ==
    IF net.body.t = "obj" /\ "data" \in DOMAIN net.body.m
    THEN net.body.m["data"] ELSE <<>>

C9_FirstResult ==
    call.op = "First" =>
        /\ IsQuerySuccess(call.net) =>
              IF ServerRows(call.net) = <<>>
              THEN ret = [val |-> NilVal, err |-> NoErr]
              ELSE ret = [val |-> [t |-> "row", m |-> ServerRows(call.net)[1]],
                          err |-> NoErr]
        /\ ret.err.type # "nil" => ret.err = qbExecute(qb, call.net).err

\* First on a successful response without rows returned (nil, nil).
C9_Witness ==
    /\ call.op = "First"
    /\ IsQuerySuccess(call.net)
    /\ ServerRows(call.net) = <<>>
    /\ ret = [val |-> NilVal, err |-> NoErr]

(***************************************************************************)
(* C10: the request sent by First() carries limit = 1, whatever Limit      *)
(* value (or none) the chain set before.                                   *)
(***************************************************************************)
C10_FirstSendsLimitOne ==
    call.op = "First" =>
        /\ Len(sent) = 1
        /\ "limit" \in DOMAIN BodyOf(sent[1])
        /\ BodyOf(sent[1])["limit"] = 1

\* First after the chain called Limit(5).
C10_Witness ==
    /\ call.op = "First"
    /\ \E i \in 1..Len(hist) : hist[i].op = "Limit" /\ hist[i].n = 5
    /\ Len(sent) = 1

(***************************************************************************)
(* table.go (errors): the storage errors.                                  *)
(***************************************************************************)
StorageError(message, statusCode, response, err) ==
    [type |-> "StorageError", Message |-> message, StatusCode |-> statusCode,
     Response |-> response, Err |-> err]

StorageLimitExceededError(message, requiredBytes, availableBytes, statusCode, response) ==
    [type |-> "StorageLimitExceededError", Message |-> message,
     RequiredBytes |-> requiredBytes, AvailableBytes |-> availableBytes,
     StatusCode |-> statusCode, Response |-> response]

\* parseStorageError: the 413 branch sets Message, StatusCode and Response only,
\* so both byte counts keep the zero value.
parseStorageError(statusCode, body) ==
    LET errorResponse == UnmarshalMap(body)
        message == errorMessage(statusCode, errorResponse)
    IN  IF statusCode = 413
        THEN StorageLimitExceededError(message, 0, 0, statusCode, errorResponse)
        ELSE StorageError(message, statusCode, errorResponse, NoErr)

(***************************************************************************)
(* storage.go: the storage client's transport.                             *)
(***************************************************************************)
\* The headers StorageClient.doRequest sets (storage.go:260-262).
StorageHeader ==
    [h \in {"Content-Type", "Accept", "Authorization"} |->
        IF h = "Authorization" THEN "Bearer " \o apiKey ELSE "application/json"]

StorageDoRequest(method, path, body, net) ==
    LET req == Request(method, projectURL \o path, StorageHeader,
                       IF body.t = "nil" THEN NoBody ELSE MarshalBody(body))
    IN  CASE net.kind = "fail" ->
                [reqs |-> <<req>>, data |-> NoBody,
                 err |-> StorageError("", 0, EmptyMap, PlainError(net.cause))]
          [] net.kind = "readfail" ->
                [reqs |-> <<req>>, data |-> NoBody,
                 err |-> PlainError("failed to read response body")]
          [] net.kind = "resp" /\ (net.status < 200 \/ net.status >= 300) ->
                [reqs |-> <<req>>, data |-> NoBody,
                 err |-> parseStorageError(net.status, net.body)]
          [] OTHER ->
                [reqs |-> <<req>>, data |-> net.body, err |-> NoErr]

(***************************************************************************)
(* models.go: StorageQuota.  A float64 is a dyadic rational: <<n, e>> is   *)
(* the value n / 2^e.  Multiplying by 1024*1024*1024 is exact, and the     *)
(* conversion to int64 truncates toward zero.                              *)
(***************************************************************************)
ZeroFloat == <<0, 0>>

\* int64(a / b) for b > 0
TruncDiv(a, b) == IF a >= 0 THEN a \div b ELSE -((-a) \div b)

\* Mutant of GBToBytes: the product is rounded down, not towards zero.
GBToBytesFloor(gb) ==
    IF gb[2] <= 30 THEN gb[1] * 2^(30 - gb[2]) ELSE gb[1] \div 2^(gb[2] - 30)

\* int64(gb * 1024 * 1024 * 1024)
GBToBytes(gb) ==
    IF gb[2] <= 30 THEN gb[1] * 2^(30 - gb[2]) ELSE TruncDiv(gb[1], 2^(gb[2] - 30))

FloatField(m, k) == IF k \in DOMAIN m THEN m[k] ELSE ZeroFloat

\* StorageQuota.UnmarshalJSON: the float fields are decoded (a missing key
\* leaves 0), then the three byte counts are computed.  The remaining fields
\* (usage_percentage, the two flags, plan_name) are decoded as they are and
\* read by nothing in the client.
UnmarshalStorageQuota(doc) ==
    IF doc.t = "garbage" THEN [ok |-> FALSE, val |-> NilVal]
    ELSE LET m == UnmarshalMap(doc)
         IN  [ok |-> TRUE,
              val |-> [t |-> "StorageQuota",
                       StorageQuotaGB |-> FloatField(m, "storage_quota_gb"),
                       StorageUsedGB |-> FloatField(m, "storage_used_gb"),
                       StorageExpansionGB |-> FloatField(m, "storage_expansion_gb"),
                       StorageAvailableGB |-> FloatField(m, "storage_available_gb"),
                       StorageQuotaBytes |-> GBToBytes(FloatField(m, "storage_quota_gb")),
                       StorageUsedBytes |-> GBToBytes(FloatField(m, "storage_used_gb")),
                       StorageAvailableBytes |->
                           GBToBytes(FloatField(m, "storage_available_gb"))]]

(***************************************************************************)
(* storage.go: GetQuota and DeleteFile; Client.Health of the data client.  *)
(***************************************************************************)
storageGetQuota(net) ==
    LET resp == StorageDoRequest("GET", "/api/v1/storage/quota", NilBody, net)
        quota == UnmarshalStorageQuota(resp.data)
    IN  IF resp.err.type # "nil"
        THEN [reqs |-> resp.reqs, val |-> NilVal, err |-> resp.err]
        ELSE IF ~quota.ok
        THEN [reqs |-> resp.reqs, val |-> NilVal,
              err |-> PlainError("failed to parse response")]
        ELSE [reqs |-> resp.reqs, val |-> quota.val, err |-> NoErr]

\* json.Unmarshal into StorageFile
UnmarshalStorageFile(doc) ==
    IF doc.t = "garbage" THEN [ok |-> FALSE, val |-> NilVal]
    ELSE LET m == UnmarshalMap(doc)
         IN  [ok |-> TRUE,
              val |-> [t |-> "StorageFile",
                       Key |-> IF "key" \in DOMAIN m THEN m["key"] ELSE "",
                       Size |-> IF "size" \in DOMAIN m THEN m["size"] ELSE 0]]

\* GetFileInfo: the key goes into the query string as it is.
storageGetFileInfo(key, net) ==
    LET resp == StorageDoRequest("GET", "/api/v1/storage/info?key=" \o key, NilBody, net)
        file == UnmarshalStorageFile(resp.data)
    IN  IF resp.err.type # "nil"
        THEN [reqs |-> resp.reqs, val |-> NilVal, err |-> resp.err]
        ELSE IF ~file.ok
        THEN [reqs |-> resp.reqs, val |-> NilVal,
              err |-> PlainError("failed to parse response")]
        ELSE [reqs |-> resp.reqs, val |-> file.val, err |-> NoErr]

\* FileExists: false without an error only for an error of type
\* *NotFoundError.
storageFileExists(key, net) ==
    LET info == storageGetFileInfo(key, net)
    IN  IF info.err.type # "nil"
        THEN IF info.err.type = "NotFoundError"
             THEN [reqs |-> info.reqs, val |-> FALSE, err |-> NoErr]
             ELSE [reqs |-> info.reqs, val |-> FALSE, err |-> info.err]
        ELSE [reqs |-> info.reqs, val |-> TRUE, err |-> NoErr]

storageDeleteFile(key, net) ==
    LET resp == StorageDoRequest("DELETE", "/api/v1/storage/delete",
                                 GoMap([key |-> JStr(key)]), net)
    IN  [reqs |-> resp.reqs, val |-> NilVal, err |-> resp.err]

\* Health decodes the body into a map: null leaves the map nil.
clientHealth(net) ==
    LET resp == ClientDoRequest("GET", "/api/v1/health", NilBody, net)
    IN  IF resp.err.type # "nil"
        THEN [reqs |-> resp.reqs, val |-> NilMap, err |-> resp.err]
        ELSE IF resp.data.t = "garbage"
        THEN [reqs |-> resp.reqs, val |-> NilMap,
              err |-> PlainError("failed to parse response")]
        ELSE IF resp.data.t = "null"
        THEN [reqs |-> resp.reqs, val |-> NilMap, err |-> NoErr]
        ELSE [reqs |-> resp.reqs, val |-> GoMap(resp.data.m), err |-> NoErr]

Health(net) ==
    \E r \in {clientHealth(net)} :
        /\ call' = [op |-> "Health", net |-> net]
        /\ sent' = r.reqs
        /\ ret' = [val |-> r.val, err |-> r.err]
        /\ UNCHANGED <<builderVars, sc, authVars>>

GetQuota(net) ==
    \E r \in {storageGetQuota(net)} :
        /\ call' = [op |-> "GetQuota", net |-> net]
        /\ sent' = r.reqs
        /\ ret' = [val |-> r.val, err |-> r.err]
        /\ UNCHANGED <<builderVars, sc, authVars>>

FileExists(key, net) ==
    \E r \in {storageFileExists(key, net)} :
        /\ call' = [op |-> "FileExists", net |-> net, key |-> key]
        /\ sent' = r.reqs
        /\ ret' = [val |-> r.val, err |-> r.err]
        /\ UNCHANGED <<builderVars, sc, authVars>>

DeleteFile(key, net) ==
    \E r \in {storageDeleteFile(key, net)} :
        /\ call' = [op |-> "DeleteFile", net |-> net, key |-> key]
        /\ sent' = r.reqs
        /\ ret' = [val |-> r.val, err |-> r.err]
        /\ UNCHANGED <<builderVars, sc, authVars>>

(***************************************************************************)
(* table.go: Table.Insert.  The data is marshalled once by Insert itself   *)
(* (the result is not used) and once more by Client.doRequest.             *)
(***************************************************************************)
\* json.Unmarshal into CreateResponse
UnmarshalCreateResponse(doc) ==
    IF doc.t = "garbage" THEN [ok |-> FALSE, val |-> NilVal]
    ELSE LET m == UnmarshalMap(doc)
         IN  [ok |-> TRUE,
              val |-> [t |-> "CreateResponse",
                       ID |-> IF "id" \in DOMAIN m THEN m["id"] ELSE JNil,
                       AffectedRows |-> IF "affected_rows" \in DOMAIN m
                                        THEN m["affected_rows"] ELSE 0,
                       Success |-> IF "success" \in DOMAIN m
                                   THEN m["success"] ELSE FALSE]]

tableInsert(tableName, data, net) ==
    LET resp == ClientDoRequest("POST", TablePath(tableName), data, net)
        result == UnmarshalCreateResponse(resp.data)
    IN  IF resp.err.type # "nil"
        THEN [reqs |-> resp.reqs, val |-> NilVal, err |-> resp.err]
        ELSE IF ~result.ok
        THEN [reqs |-> resp.reqs, val |-> NilVal,
              err |-> PlainError("failed to parse response")]
        ELSE [reqs |-> resp.reqs, val |-> result.val, err |-> NoErr]

Insert(tableName, data, net) ==
    \E r \in {tableInsert(tableName, data, net)} :
        /\ call' = [op |-> "Insert", net |-> net, data |-> data,
                    tableName |-> tableName]
        /\ sent' = r.reqs
        /\ ret' = [val |-> r.val, err |-> r.err]
        /\ UNCHANGED <<builderVars, sc, authVars>>

\* The records passed to Insert: a map and the nil map.
InsertData == UpdateData \cup {NilMap}

(***************************************************************************)
(* The error specification: one call of a data or storage operation,       *)
(* answered by any status with any body.                                   *)
(***************************************************************************)
ErrStatuses == {100, 199, 200, 204, 299, 300, 304, 400, 401, 403, 404, 413, 429, 500, 503}

\* What the three message fields may hold: strings (the empty one and the
\* parsers' own placeholder among them) and a value that is no string.
ErrValues == {JStr("invalid api key"), JStr("quota exceeded"), JStr(""),
              JStr("Request failed"), JInt(7)}
ErrKeys == {"error", "message", "detail"}
ErrObjects == UNION {[ks -> ErrValues] : ks \in SUBSET ErrKeys}
ErrBodies == {Garbage, JNullDoc} \cup {JObject(m) : m \in ErrObjects}

ErrNet == {NetFail} \cup {ReadFail(s) : s \in {200, 500}}
              \cup {Resp(s, b) : s \in ErrStatuses, b \in ErrBodies}

FileKeys == {"docs/report.pdf"}

\* No operation has been called yet.
Idle == sent = <<>> /\ ret = NoRet

NextErr ==
    \/ Idle /\ \E net \in ErrNet : Health(net)
    \/ Idle /\ \E net \in ErrNet : Execute(net)
    \/ Idle /\ \E net \in ErrNet : Get(net)
    \/ Idle /\ \E net \in ErrNet : First(net)
    \/ Idle /\ \E d \in UpdateData, net \in ErrNet : Update(d, net)
    \/ Idle /\ \E net \in ErrNet : Delete(net)
    \/ Idle /\ \E t \in TableNames, d \in InsertData, net \in ErrNet : Insert(t, d, net)
    \/ Idle /\ \E net \in ErrNet : GetQuota(net)
    \/ Idle /\ \E k \in FileKeys, net \in ErrNet : DeleteFile(k, net)
    \/ Idle /\ \E k \in FileKeys, net \in ErrNet : FileExists(k, net)

SpecErr == Init /\ [][NextErr]_vars

(***************************************************************************)
(* What the error claims speak of.                                         *)
(***************************************************************************)
DataOps == {"Health", "Execute", "Get", "First", "Update", "Delete", "Insert"}
StorageOps == {"GetQuota", "DeleteFile"}

\* The call was answered in full by a status outside 200..299.
FailedResponse ==
    /\ call.op \in DataOps \cup StorageOps
    /\ call.net.kind = "resp"
    /\ call.net.status \notin 200..299

TypeOfStatus(status) ==
    CASE status \in {401, 403} -> "AuthenticationError"
      [] status = 404 -> "NotFoundError"
      [] status = 429 -> "RateLimitError"
      [] OTHER -> "WowMySQLError"

(***************************************************************************)
(* C5: a failed response of the data API is classified by the status code  *)
(* alone: every status outside 200..299 yields an error and no decoded     *)
(* result; 401 and 403 yield AuthenticationError, 404 NotFoundError, 429   *)
(* RateLimitError, every other status the generic WowMySQLError; the       *)
(* error's StatusCode is the response status.                              *)
(***************************************************************************)
C5_ClassifiedByStatus ==
    (FailedResponse /\ call.op \in DataOps) =>
        /\ ret.val \in {NilVal, NilMap}
        /\ ret.err.type = TypeOfStatus(call.net.status)
        /\ ret.err.StatusCode = call.net.status

\* A 403 whose body names an error was returned as AuthenticationError.
C5_Witness ==
    /\ FailedResponse
    /\ call.op = "Update"
    /\ call.net.status = 403
    /\ call.net.body.t = "obj"
    /\ ret.err.type = "AuthenticationError"
    /\ ret.err.StatusCode = 403

(***************************************************************************)
(* C6: for every failed response the error message is the string value of  *)
(* the body's `error` field if there is one, else of `message`, else of    *)
(* `detail`; only when none of the three is a string is it the text        *)
(* "Request failed with status N"; so for parseError and parseStorageError *)
(* alike and for every string value of the fields.                         *)
(***************************************************************************)
StatedMessage(status, body) ==
    LET m == UnmarshalMap(body)
    IN  IF IsString(m, "error") THEN m["error"][2]
        ELSE IF IsString(m, "message") THEN m["message"][2]
        ELSE IF IsString(m, "detail") THEN m["detail"][2]
        ELSE "Request failed with status " \o ToString(status)

C6_MessageFromBody ==
    FailedResponse =>
        ret.err.Message = StatedMessage(call.net.status, call.net.body)

\* The same statement for every field value but the parsers' placeholder.
C6_MessageUnlessPlaceholder ==
    (FailedResponse /\ StatedMessage(call.net.status, call.net.body) # "Request failed") =>
        ret.err.Message = StatedMessage(call.net.status, call.net.body)

\* A body whose `error` is the string "Request failed" was answered with the
\* synthesized text, by the data client and by the storage client.
C6_PlaceholderData ==
    /\ FailedResponse
    /\ call.op = "Health"
    /\ call.net.status = 500
    /\ call.net.body = JObject([error |-> JStr("Request failed")])
    /\ ret.err.Message = "Request failed with status 500"

C6_PlaceholderStorage ==
    /\ FailedResponse
    /\ call.op = "DeleteFile"
    /\ call.net.status = 500
    /\ call.net.body = JObject([error |-> JStr("Request failed")])
    /\ ret.err.Message = "Request failed with status 500"

(***************************************************************************)
(* storage.go: formatBytes.  float64(bytes)/float64(div) is exact (div is  *)
(* a power of two), and %.2f rounds it to hundredths, ties to even.        *)
(***************************************************************************)
unit == 1024
UnitLetters == <<"K", "M", "G", "T", "P", "E">>

\* for n := bytes / unit; n >= unit; n /= unit { div *= unit; exp++ }
RECURSIVE formatBytesScale(_, _, _)
formatBytesScale(n, div, exp) ==
    IF n >= unit THEN formatBytesScale(n \div unit, div * unit, exp + 1)
    ELSE [div |-> div, exp |-> exp]

\* bytes / div in hundredths, rounded half to even; the remainder is split
\* at the last factor of 1024 so that no product leaves the integer range.
Hundredths(bytes, div) ==
    LET d1 == div \div unit
        rem == bytes % div
        a == rem \div unit
        b == rem % unit
        n == a * 100 + (b * 100) \div unit
        rr == (b * 100) % unit
        q == n \div d1
        x == (n % d1) * unit + rr
        h == d1 * (unit \div 2)
        up == IF x > h THEN 1 ELSE IF x = h THEN q % 2 ELSE 0
    IN  (bytes \div div) * 100 + q + up

TwoDigits(n) == IF n < 10 THEN "0" \o ToString(n) ELSE ToString(n)

formatBytes(bytes) ==
    IF bytes < unit THEN ToString(bytes) \o " B"
    ELSE LET s == formatBytesScale(bytes \div unit, unit, 0)
             c == Hundredths(bytes, s.div)
         IN  ToString(c \div 100) \o "." \o TwoDigits(c % 100) \o " "
                 \o UnitLetters[s.exp + 1] \o "B"

(***************************************************************************)
(* storage.go: Upload.                                                     *)
(***************************************************************************)
\* json.Unmarshal into FileUploadResult
UnmarshalFileUploadResult(doc) ==
    IF doc.t = "garbage" THEN [ok |-> FALSE, val |-> NilVal]
    ELSE LET m == UnmarshalMap(doc)
         IN  [ok |-> TRUE,
              val |-> [t |-> "FileUploadResult",
                       Key |-> IF "key" \in DOMAIN m THEN m["key"] ELSE "",
                       Size |-> IF "size" \in DOMAIN m THEN m["size"] ELSE 0,
                       URL |-> IF "url" \in DOMAIN m THEN m["url"] ELSE "",
                       Success |-> IF "success" \in DOMAIN m THEN m["success"] ELSE FALSE]]

\* StorageLimitExceededError.Error(): the display text, as the sequence of
\* the pieces Sprintf joins; the byte counts are appended only when both are
\* positive.
StorageLimitExceededErrorText(e) ==
    IF e.RequiredBytes > 0 /\ e.AvailableBytes > 0
    THEN <<"StorageLimitExceededError: ", e.Message, " (Required: ",
           formatBytes(e.RequiredBytes), ", Available: ",
           formatBytes(e.AvailableBytes), ")">>
    ELSE <<"StorageLimitExceededError: ", e.Message>>

\* The message Upload gives the error it raises itself (storage.go:76).
LimitExceededMessage(requiredBytes, availableBytes) ==
    "Storage limit exceeded. Need " \o formatBytes(requiredBytes)
        \o ", but only " \o formatBytes(availableBytes) \o " available."

\* The multipart form: the key field, the content type field when one is
\* given, and the file part named after the key.
MultipartForm(fileData, key, contentType) ==
    [t |-> "multipart",
     fields |-> IF contentType # ""
                THEN <<<<"key", key>>, <<"content_type", contentType>>>>
                ELSE <<<<"key", key>>>>,
     file |-> [field |-> "file", filename |-> key, data |-> fileData]]

\* writer.FormDataContentType(): the boundary is random and left out.
UploadHeader ==
    [h \in {"Content-Type", "Authorization"} |->
        IF h = "Authorization" THEN "Bearer " \o apiKey ELSE "multipart/form-data"]

UploadPath == "/api/v1/storage/upload"

\* Mutant of shouldCheck: a false checkQuota does not switch off a client
\* that checks by default.
shouldCheckEither(s, checkQuota) ==
    IF checkQuota # NilPtr THEN checkQuota[1] \/ s.autoCheckQuota
    ELSE s.autoCheckQuota

\* shouldCheck (storage.go:62-65): a non-nil checkQuota overrides the client's
\* autoCheckQuota.
shouldCheck(s, checkQuota) ==
    IF checkQuota # NilPtr THEN checkQuota[1] ELSE s.autoCheckQuota

\* Mutant of quotaInsufficient: a payload of exactly the available size is
\* refused too.
quotaInsufficientOrEqual(quota, fileData) ==
    quota.StorageAvailableBytes <= Len(fileData)

\* quota.StorageAvailableBytes < int64(len(fileData))  (storage.go:74)
quotaInsufficient(quota, fileData) ==
    quota.StorageAvailableBytes < Len(fileData)

\* The upload request and what follows it (storage.go:83-143).
storageUploadSend(fileData, key, contentType, net) ==
    LET req == Request("POST", projectURL \o UploadPath, UploadHeader,
                       MultipartForm(fileData, key, contentType))
        result == UnmarshalFileUploadResult(net.body)
    IN  CASE net.kind = "fail" ->
                [reqs |-> <<req>>, val |-> NilVal,
                 err |-> StorageError("", 0, EmptyMap, PlainError(net.cause))]
          [] net.kind = "readfail" ->
                [reqs |-> <<req>>, val |-> NilVal,
                 err |-> PlainError("failed to read response body")]
          [] net.kind = "resp" /\ (net.status < 200 \/ net.status >= 300) ->
                [reqs |-> <<req>>, val |-> NilVal,
                 err |-> parseStorageError(net.status, net.body)]
          [] net.kind = "resp" /\ ~result.ok ->
                [reqs |-> <<req>>, val |-> NilVal,
                 err |-> PlainError("failed to parse response")]
          [] OTHER ->
                [reqs |-> <<req>>, val |-> result.val, err |-> NoErr]

\* Mutant of storageUpload: a quota request that fails does not stop the
\* upload.
storageUploadFailOpen(s, fileData, key, contentType, checkQuota, netQuota, netUpload) ==
    LET q == storageGetQuota(netQuota)
        up == storageUploadSend(fileData, key, contentType, netUpload)
    IN  IF ~shouldCheck(s, checkQuota) THEN up
        ELSE IF q.err.type # "nil"
        THEN [reqs |-> q.reqs \o up.reqs, val |-> up.val, err |-> up.err]
        ELSE IF quotaInsufficient(q.val, fileData)
        THEN [reqs |-> q.reqs, val |-> NilVal,
              err |-> StorageLimitExceededError(
                          LimitExceededMessage(Len(fileData),
                                               q.val.StorageAvailableBytes),
                          Len(fileData), q.val.StorageAvailableBytes, 0, EmptyMap)]
        ELSE [reqs |-> q.reqs \o up.reqs, val |-> up.val, err |-> up.err]

\* Upload: netQuota answers the quota request (when one is made), netUpload
\* the upload request (when one is made).
storageUpload(s, fileData, key, contentType, checkQuota, netQuota, netUpload) ==
    LET q == storageGetQuota(netQuota)
        up == storageUploadSend(fileData, key, contentType, netUpload)
    IN  IF ~shouldCheck(s, checkQuota) THEN up
        ELSE IF q.err.type # "nil"
        THEN [reqs |-> q.reqs, val |-> NilVal, err |-> q.err]
        ELSE IF quotaInsufficient(q.val, fileData)
        THEN [reqs |-> q.reqs, val |-> NilVal,
              err |-> StorageLimitExceededError(
                          LimitExceededMessage(Len(fileData),
                                               q.val.StorageAvailableBytes),
                          Len(fileData), q.val.StorageAvailableBytes, 0, EmptyMap)]
        ELSE [reqs |-> q.reqs \o up.reqs, val |-> up.val, err |-> up.err]

NewStorageClient ==
    /\ sc' = [autoCheckQuota |-> TRUE]
    /\ call' = [op |-> "NewStorageClient"]
    /\ sent' = <<>>
    /\ ret' = NoRet
    /\ UNCHANGED <<builderVars, authVars>>

NewStorageClientWithOptions(autoCheckQuota) ==
    /\ sc' = [autoCheckQuota |-> autoCheckQuota]
    /\ call' = [op |-> "NewStorageClientWithOptions",
                autoCheckQuota |-> autoCheckQuota]
    /\ sent' = <<>>
    /\ ret' = NoRet
    /\ UNCHANGED <<builderVars, authVars>>

Upload(fileData, key, contentType, checkQuota, netQuota, netUpload) ==
    \E r \in {storageUpload(sc, fileData, key, contentType, checkQuota,
                            netQuota, netUpload)} :
        /\ call' = [op |-> "Upload", fileData |-> fileData, key |-> key,
                    contentType |-> contentType, checkQuota |-> checkQuota,
                    netQuota |-> netQuota, netUpload |-> netUpload]
        /\ sent' = r.reqs
        /\ ret' = [val |-> r.val, err |-> r.err]
        /\ UNCHANGED <<builderVars, sc, authVars>>

(***************************************************************************)
(* The storage specification: a storage client is constructed and Upload   *)
(* is called once, with payloads of up to MaxPayload bytes and quotas      *)
(* around those sizes.                                                     *)
(***************************************************************************)
MaxPayload == 3

Payloads == {[i \in 1..n |-> 120] : n \in 0..MaxPayload}
ContentTypes == {"", "text/plain"}
CheckQuotas == {NilPtr, PtrTo(TRUE), PtrTo(FALSE)}

\* storage_available_gb: n bytes for n around the payload sizes, two and a
\* half bytes either side of zero, and one gigabyte.
AvailableGB == {<<n, 30>> : n \in -1..(MaxPayload + 1)}
                  \cup {<<5, 31>>, <<-5, 31>>, <<1, 0>>}

QuotaDoc(available) ==
    JObject([storage_quota_gb |-> <<1, 0>>, storage_used_gb |-> <<1, 1>>,
             storage_available_gb |-> available])

QuotaNet == {NetFail, ReadFail(200), Resp(500, ErrorDoc), Resp(200, Garbage),
             Resp(200, JNullDoc)}
                \cup {Resp(200, QuotaDoc(a)) : a \in AvailableGB}

UploadDoc ==
    JObject([key |-> "docs/report.pdf", size |-> 3,
             url |-> "https://cdn.wowmysql.com/docs/report.pdf", success |-> TRUE])

UploadNet == {NetFail, ReadFail(200), Resp(200, UploadDoc), Resp(200, Garbage),
              Resp(413, ErrorDoc), Resp(413, Garbage), Resp(500, ErrorDoc)}

NextStorage ==
    \/ Idle /\ NewStorageClient
    \/ Idle /\ \E b \in BOOLEAN : NewStorageClientWithOptions(b)
    \/ Idle /\ \E d \in Payloads, k \in FileKeys, ct \in ContentTypes,
                  cq \in CheckQuotas, nq \in QuotaNet, nu \in UploadNet :
                    Upload(d, k, ct, cq, nq, nu)
    \/ Idle /\ \E net \in QuotaNet : GetQuota(net)

SpecStorage == Init /\ [][NextStorage]_vars

(***************************************************************************)
(* What the upload claims speak of.                                        *)
(***************************************************************************)
\* Upload was called with quota checking in effect and the quota was fetched.
QuotaChecked ==
    /\ call.op = "Upload"
    /\ shouldCheck(sc, call.checkQuota)
    /\ storageGetQuota(call.netQuota).err.type = "nil"

FetchedAvailableBytes == storageGetQuota(call.netQuota).val.StorageAvailableBytes

\* The requests of the call that went to the upload endpoint.
UploadRequests == {i \in 1..Len(sent) : sent[i].url = projectURL \o UploadPath}

(***************************************************************************)
(* C7: with quota checking in effect, Upload issues the upload request iff *)
(* the fetched StorageAvailableBytes is at least the payload length; when  *)
(* it is smaller, Upload returns StorageLimitExceededError with            *)
(* RequiredBytes = payload length and AvailableBytes = the fetched value,  *)
(* and no request to /api/v1/storage/upload is issued in the call.         *)
(***************************************************************************)
C7_QuotaGuard ==
    QuotaChecked =>
        /\ UploadRequests # {} <=> FetchedAvailableBytes >= Len(call.fileData)
        /\ FetchedAvailableBytes < Len(call.fileData) =>
              /\ ret.val = NilVal
              /\ ret.err.type = "StorageLimitExceededError"
              /\ ret.err.RequiredBytes = Len(call.fileData)
              /\ ret.err.AvailableBytes = FetchedAvailableBytes
              /\ UploadRequests = {}

\* Three bytes against two available: refused after the quota request alone.
C7_Witness ==
    /\ QuotaChecked
    /\ Len(call.fileData) = 3
    /\ FetchedAvailableBytes = 2
    /\ Len(sent) = 1
    /\ ret.err.type = "StorageLimitExceededError"
    /\ ret.err.RequiredBytes = 3
    /\ ret.err.AvailableBytes = 2

(***************************************************************************)
(* C8: a 413 response to a storage upload yields StorageLimitExceededError *)
(* whose RequiredBytes equals the length of the uploaded payload.          *)
(***************************************************************************)
\* The upload request of the call was answered 413.
UploadAnswered413 ==
    /\ call.op = "Upload"
    /\ UploadRequests # {}
    /\ call.netUpload.kind = "resp"
    /\ call.netUpload.status = 413

C8_RequiredBytesOn413 ==
    UploadAnswered413 =>
        /\ ret.err.type = "StorageLimitExceededError"
        /\ ret.err.RequiredBytes = Len(call.fileData)

\* What the code does on 413: the error type, with both byte counts zero.
C8_TypeOn413 ==
    UploadAnswered413 =>
        /\ ret.err.type = "StorageLimitExceededError"
        /\ ret.err.StatusCode = 413
        /\ ret.err.RequiredBytes = 0
        /\ ret.err.AvailableBytes = 0

\* A three-byte upload answered 413 came back with RequiredBytes = 0.
C8_ZeroRequiredBytes ==
    /\ UploadAnswered413
    /\ Len(call.fileData) = 3
    /\ ret.err.type = "StorageLimitExceededError"
    /\ ret.err.RequiredBytes = 0

(***************************************************************************)
(* C11: after any sequence of mutator calls every FilterExpression held by *)
(* the builder has a non-empty column, an operator from the fixed set, and *)
(* an absent (nil) value only when its operator is is-null.                *)
(***************************************************************************)
FixedOperators == {OpEq, OpNeq, OpGt, OpGte, OpLt, OpLte, OpLike, OpIsNull}

C11_FilterInvariant ==
    \A i \in 1..Len(qb.filters) :
        /\ qb.filters[i].Column # ""
        /\ qb.filters[i].Operator \in FixedOperators
        /\ qb.filters[i].Value = JNil => qb.filters[i].Operator = OpIsNull

\* The part the mutators do keep: the operator is one of the fixed set.
C11_OperatorFixed ==
    \A i \in 1..Len(qb.filters) : qb.filters[i].Operator \in FixedOperators

\* Eq("", nil) left a filter with an empty column and an eq without a value.
C11_EmptyColumnHeld ==
    /\ call.op = "Eq"
    /\ qb.filters # <<>>
    /\ qb.filters[Len(qb.filters)] = FilterExpression("", OpEq, JNil)

(***************************************************************************)
(* C12: every filter added by IsNull(column) is serialized without a       *)
(* `value` key, for every column name and at every position of the list.   *)
(***************************************************************************)
\* The calls that send the builder's filters.
FilterSenders == {"Execute", "Get", "First", "Update", "Delete"}

C12_IsNullWithoutValue ==
    (call.op \in FilterSenders /\ Len(sent) = 1 /\ sent[1].body.t = "obj") =>
        /\ Len(WireFilters(BodyOf(sent[1]))) = Len(FilterCalls)
        /\ \A i \in 1..Len(FilterCalls) :
              FilterCalls[i].op = "IsNull" =>
                  "value" \notin DOMAIN WireFilters(BodyOf(sent[1]))[i]

\* Execute sent Gt(...) then IsNull(...): the second entry has no value key.
C12_Witness ==
    /\ call.op = "Execute"
    /\ Len(sent) = 1
    /\ Len(FilterCalls) = 2
    /\ FilterCalls[1].op = "Gt"
    /\ FilterCalls[2].op = "IsNull"
    /\ DOMAIN WireFilters(BodyOf(sent[1]))[2] = {"column", "operator"}
    /\ "value" \in DOMAIN WireFilters(BodyOf(sent[1]))[1]

(***************************************************************************)
(* C13: Select, OrderBy, Limit and Offset replace: after any chain of      *)
(* mutator calls the builder's columns, order (column and direction),      *)
(* limit and offset are the arguments of the last call of the respective   *)
(* setter, whatever earlier calls of that setter and whatever filter calls *)
(* the chain holds; Select() followed by Select("a","b") sends the columns *)
(* ["a","b"] only.                                                         *)
(***************************************************************************)
C13_LastSetterWins ==
    /\ HasCall("Select") => qb.columns = LastCall("Select").columns
    /\ HasCall("OrderBy") =>
          /\ qb.orderColumn = LastCall("OrderBy").column
          /\ qb.orderDirection = LastCall("OrderBy").direction
    /\ HasCall("Limit") => qb.limitValue = PtrTo(LastCall("Limit").n)
    /\ HasCall("Offset") => qb.offsetValue = PtrTo(LastCall("Offset").n)
    /\ (call.op = "Execute" /\ HasCall("Select")
            /\ LastCall("Select").columns # <<>>) =>
          /\ Len(sent) = 1
          /\ "columns" \in DOMAIN BodyOf(sent[1])
          /\ BodyOf(sent[1])["columns"] = LastCall("Select").columns

\* Select() then Select("a", "b"), executed: the columns sent are a and b.
C13_Witness ==
    /\ call.op = "Execute"
    /\ Len(hist) = 2
    /\ hist[1] = [op |-> "Select", columns |-> <<>>]
    /\ hist[2] = [op |-> "Select", columns |-> <<"a", "b">>]
    /\ BodyOf(sent[1])["columns"] = <<"a", "b">>

(***************************************************************************)
(* C14: each terminal call (Execute, Get, First, Update, Delete and        *)
(* Table.Insert) issues exactly one HTTP request, whether it ends in       *)
(* success or in an error response; a failure is returned to the caller,   *)
(* never retried and never swallowed.                                      *)
(***************************************************************************)
Terminals == {"Execute", "Get", "First", "Update", "Delete", "Insert"}

\* The one request of the call got no 2xx answer.
RequestFailed == call.net.kind # "resp" \/ call.net.status \notin 200..299

C14_OneRequestPerTerminal ==
    call.op \in Terminals =>
        /\ Len(sent) = 1
        /\ RequestFailed =>
              /\ ret.val = NilVal
              /\ ret.err.type # "nil"
              /\ call.net.kind = "fail" => ret.err = NetworkError(call.net.cause)
              /\ call.net.kind = "resp" => ret.err.StatusCode = call.net.status

\* Insert answered 500: one request, the error returned.
C14_Witness ==
    /\ call.op = "Insert"
    /\ call.net.kind = "resp"
    /\ call.net.status = 500
    /\ Len(sent) = 1
    /\ sent[1].method = "POST"
    /\ ret.err.type = "WowMySQLError"

(***************************************************************************)
(* C15: whether Upload makes the quota pre-check is decided by the         *)
(* per-call checkQuota argument when one is given, in both directions,     *)
(* and by the client's autoCheckQuota otherwise, which is true for         *)
(* NewStorageClient; when the check is not in effect Upload issues no      *)
(* request to /api/v1/storage/quota.                                       *)
(***************************************************************************)
QuotaPath == "/api/v1/storage/quota"

\* The requests of the call that went to the quota endpoint.
QuotaRequests == {i \in 1..Len(sent) : sent[i].url = projectURL \o QuotaPath}

C15_CheckDecision ==
    /\ call.op = "NewStorageClient" => sc.autoCheckQuota = TRUE
    /\ call.op = "NewStorageClientWithOptions" =>
          sc.autoCheckQuota = call.autoCheckQuota
    /\ call.op = "Upload" =>
          /\ call.checkQuota = PtrTo(TRUE) => QuotaRequests = {1}
          /\ call.checkQuota = PtrTo(FALSE) => QuotaRequests = {}
          /\ call.checkQuota = NilPtr =>
                QuotaRequests = (IF sc.autoCheckQuota THEN {1} ELSE {})

\* A client built without the check, asked for it by the call: the quota is
\* fetched first and the upload sent after it.
C15_Witness ==
    /\ call.op = "Upload"
    /\ ~sc.autoCheckQuota
    /\ call.checkQuota = PtrTo(TRUE)
    /\ Len(sent) = 2
    /\ sent[1].url = projectURL \o QuotaPath
    /\ sent[1].method = "GET"
    /\ sent[2].url = projectURL \o UploadPath

(***************************************************************************)
(* auth_client.go: NewAuthClient, and the specification of the base URL:   *)
(* auth clients are built from full URLs in their four spellings, from     *)
(* bare slugs and from host names, with and without a base domain.         *)
(***************************************************************************)
NewAuthClient(config) ==
    /\ ac' = newAuthClient(config)
    /\ call' = [op |-> "NewAuthClient", config |-> config]
    /\ sent' = <<>>
    /\ ret' = NoRet
    /\ UNCHANGED <<builderVars, sc, proc, overlap>>

\* "myproj", "p"
Slugs == {<<"m", "y", "p", "r", "o", "j">>, <<"p">>}

\* "https://myproj.wowmysql.com", "http://myproj.wowmysql.com",
\* "http://localhost:8080", "https://x.io/v1"
FullURLs ==
    {SchemeHTTPS \o <<"m", "y", "p", "r", "o", "j">> \o Dot \o DefaultBaseDomain,
     SchemeHTTP \o <<"m", "y", "p", "r", "o", "j">> \o Dot \o DefaultBaseDomain,
     SchemeHTTP \o <<"l", "o", "c", "a", "l", "h", "o", "s", "t", ":", "8", "0", "8", "0">>,
     SchemeHTTPS \o <<"x", ".", "i", "o", "/", "v", "1">>}

\* U, U/, U/api and U/api/
Spellings(u) == {u, u \o Slash, u \o ApiSegment, u \o ApiSegment \o Slash}

\* A string as given and with blanks around it.
Padded(u) == {u, <<" ">> \o u \o <<" ", "\n">>}

\* "myproj.wowmysql.com": a host name that holds the base domain already.
HostNames == {<<"m", "y", "p", "r", "o", "j">> \o Dot \o DefaultBaseDomain}

ProjectURLs ==
    Slugs \cup UNION {Spellings(h) : h \in HostNames}
          \cup UNION {UNION {Padded(v) : v \in Spellings(u)} : u \in FullURLs}

\* "" (the default) and "x.io"
BaseDomains == {<<>>, <<"x", ".", "i", "o">>}

AuthConfigs ==
    {AuthConfig(u, d, secure, 0, k) :
        u \in ProjectURLs, d \in BaseDomains, secure \in BOOLEAN,
        k \in {"", "public-api-key"}}

NextAuthURL == \E config \in AuthConfigs : NewAuthClient(config)

SpecAuthURL == Init /\ [][NextAuthURL]_vars

(***************************************************************************)
(* C18: an auth client built for the bare slug "myproj" with the default   *)
(* base domain, and generally for any bare slug s with no base domain      *)
(* configured, uses the base URL https://s.wowmysql.com/api/auth.          *)
(***************************************************************************)
\* An auth client was built from a bare slug, no base domain given.
BuiltFromSlug ==
    /\ call.op = "NewAuthClient"
    /\ call.config.ProjectURL \in Slugs
    /\ call.config.BaseDomain = <<>>

C18_SlugBaseURL ==
    BuiltFromSlug =>
        ac.baseURL = SchemeHTTPS \o call.config.ProjectURL \o Dot
                         \o DefaultBaseDomain \o AuthSuffix

\* The same with Secure set: the scheme follows the Secure field.
C18_SlugBaseURLBySecure ==
    BuiltFromSlug =>
        ac.baseURL = (IF call.config.Secure THEN SchemeHTTPS ELSE SchemeHTTP)
                         \o call.config.ProjectURL \o Dot
                         \o DefaultBaseDomain \o AuthSuffix

\* AuthConfig{ProjectURL: "myproj"}, Secure left at false: the base URL is
\* http://myproj.wowmysql.com/api/auth.
C18_InsecureSlug ==
    /\ BuiltFromSlug
    /\ call.config.ProjectURL = <<"m", "y", "p", "r", "o", "j">>
    /\ ~call.config.Secure
    /\ ac.baseURL = SchemeHTTP \o <<"m", "y", "p", "r", "o", "j">> \o Dot
                        \o DefaultBaseDomain \o AuthSuffix

SignUpPath == <<"/", "s", "i", "g", "n", "u", "p">>
LoginPath == <<"/", "l", "o", "g", "i", "n">>
OAuthPrefix == <<"/", "o", "a", "u", "t", "h", "/">>
CallbackSuffix == <<"/", "c", "a", "l", "l", "b", "a", "c", "k">>

\* The headers AuthClient.doRequest sets: the public key only when the
\* client has one, then the headers of the call.
AuthHeader(c, headers) ==
    [h \in {"Content-Type"} \cup (IF c.publicKey # "" THEN {"X-Wow-Public-Key"} ELSE {})
            \cup DOMAIN headers |->
        IF h \in DOMAIN headers THEN headers[h]
        ELSE IF h = "Content-Type" THEN "application/json"
        ELSE c.publicKey]

NoHeaders == [h \in {} |-> ""]

\* AuthClient.doRequest; body is the JSON document of the payload, or NoBody.
AuthDoRequest(c, method, path, body, headers, net) ==
    LET req == Request(method, c.baseURL \o path, AuthHeader(c, headers), body)
    IN  CASE net.kind = "fail" ->
                [reqs |-> <<req>>, data |-> NoBody, err |-> NetworkError(net.cause)]
          [] net.kind = "readfail" ->
                [reqs |-> <<req>>, data |-> NoBody,
                 err |-> PlainError("failed to read response body")]
          [] net.kind = "resp" /\ (net.status < 200 \/ net.status >= 300) ->
                [reqs |-> <<req>>, data |-> NoBody,
                 err |-> parseError(net.status, net.body)]
          [] OTHER ->
                [reqs |-> <<req>>, data |-> net.body, err |-> NoErr]

AuthSession(accessToken, refreshToken, tokenType, expiresIn) ==
    [AccessToken |-> accessToken, RefreshToken |-> refreshToken,
     TokenType |-> tokenType, ExpiresIn |-> expiresIn]

AuthResult(user, session) == [t |-> "AuthResult", User |-> user, Session |-> session]

StringField(m, k) == IF k \in DOMAIN m THEN m[k] ELSE ""

\* json.Unmarshal into authResponse / loginResponse, and the AuthSession
\* built from it; loginResponse has no user.
UnmarshalAuthResponse(doc, withUser) ==
    IF doc.t = "garbage" THEN [ok |-> FALSE, user |-> NilVal, session |-> NilVal]
    ELSE LET m == UnmarshalMap(doc)
         IN  [ok |-> TRUE,
              user |-> IF withUser /\ "user" \in DOMAIN m THEN m["user"] ELSE NilVal,
              session |-> AuthSession(StringField(m, "access_token"),
                                      StringField(m, "refresh_token"),
                                      StringField(m, "token_type"),
                                      IF "expires_in" \in DOMAIN m
                                      THEN m["expires_in"] ELSE 0)]

\* Mutant of persistAccess: the stored access token is kept.
persistAccessKept(c, session) == c

\* persistSession, first statement: c.accessToken = session.AccessToken
persistAccess(c, session) == [c EXCEPT !.accessToken = session.AccessToken]

\* Mutant of persistRefresh: a refresh token is stored only when none is held.
persistRefreshOnce(c, session) ==
    IF c.refreshToken = "" THEN [c EXCEPT !.refreshToken = session.RefreshToken]
    ELSE c

\* persistSession, second statement: c.refreshToken = session.RefreshToken
persistRefresh(c, session) == [c EXCEPT !.refreshToken = session.RefreshToken]

persistSession(c, session) == persistRefresh(persistAccess(c, session), session)

\* The request of a session call and the session decoded from its answer:
\* what SignUp, SignIn and ExchangeOAuthCallback do before persistSession.
authFetchSession(c, path, payload, withUser, what, net) ==
    LET resp == AuthDoRequest(c, "POST", path, JObject(payload), NoHeaders, net)
        parsed == UnmarshalAuthResponse(resp.data, withUser)
    IN  IF resp.err.type # "nil"
        THEN [reqs |-> resp.reqs, ok |-> FALSE, val |-> NilVal, err |-> resp.err]
        ELSE IF ~parsed.ok
        THEN [reqs |-> resp.reqs, ok |-> FALSE, val |-> NilVal,
              err |-> PlainError("failed to parse " \o what \o " response")]
        ELSE [reqs |-> resp.reqs, ok |-> TRUE,
              val |-> AuthResult(parsed.user, parsed.session), err |-> NoErr]

\* signUpRequest: full_name and user_metadata are left out when not set.
signUpPayload(email, password, fullName) ==
    IF fullName = NilPtr THEN [email |-> email, password |-> password]
    ELSE [email |-> email, password |-> password, full_name |-> fullName[1]]

loginPayload(email, password) == [email |-> email, password |-> password]

oauthPayload(code, redirectURI) ==
    IF redirectURI = NilPtr THEN [code |-> code]
    ELSE [code |-> code, redirect_uri |-> redirectURI[1]]

\* The session calls up to persistSession.
signUpFetch(c, email, password, fullName, net) ==
    authFetchSession(c, SignUpPath, signUpPayload(email, password, fullName),
                     TRUE, "signup", net)

signInFetch(c, email, password, net) ==
    authFetchSession(c, LoginPath, loginPayload(email, password), FALSE, "login", net)

exchangeFetch(c, provider, code, redirectURI, net) ==
    authFetchSession(c, OAuthPrefix \o provider \o CallbackSuffix,
                     oauthPayload(code, redirectURI), TRUE, "oauth callback", net)

\* Mutant of authFinish: a failed call drops the stored session.
authFinishClearOnFailure(c, r) ==
    [c |-> IF r.ok THEN persistSession(c, r.val.Session)
           ELSE [c EXCEPT !.accessToken = "", !.refreshToken = ""],
     reqs |-> r.reqs, val |-> r.val, err |-> r.err]

\* A session call as a whole: the client afterwards and what is returned.
authFinish(c, r) ==
    [c |-> IF r.ok THEN persistSession(c, r.val.Session) ELSE c,
     reqs |-> r.reqs, val |-> r.val, err |-> r.err]

authSignUp(c, email, password, fullName, net) ==
    authFinish(c, signUpFetch(c, email, password, fullName, net))

authSignIn(c, email, password, net) ==
    authFinish(c, signInFetch(c, email, password, net))

authExchangeOAuthCallback(c, provider, code, redirectURI, net) ==
    authFinish(c, exchangeFetch(c, provider, code, redirectURI, net))

authGetSession(c) == AuthSession(c.accessToken, c.refreshToken, "bearer", 0)

authSetSession(c, accessToken, refreshToken) ==
    [c EXCEPT !.accessToken = accessToken, !.refreshToken = refreshToken]

authClearSession(c) == [c EXCEPT !.accessToken = "", !.refreshToken = ""]

\* "/me", "/forgot-password", "/reset-password", "?frontend_redirect_uri="
MePath == <<"/", "m", "e">>
ForgotPasswordPath ==
    <<"/", "f", "o", "r", "g", "o", "t", "-", "p", "a", "s", "s", "w", "o", "r", "d">>
ResetPasswordPath ==
    <<"/", "r", "e", "s", "e", "t", "-", "p", "a", "s", "s", "w", "o", "r", "d">>
FrontendRedirectParam ==
    <<"?", "f", "r", "o", "n", "t", "e", "n", "d", "_", "r", "e", "d", "i", "r", "e",
      "c", "t", "_", "u", "r", "i", "=">>

\* url.QueryEscape: a space becomes "+", the reserved characters their
\* percent-encoding, letters, digits and - _ . ~ stay.
EscapedChar(ch) ==
    CASE ch = " " -> <<"+">>
      [] ch = ":" -> <<"%", "3", "A">>
      [] ch = "/" -> <<"%", "2", "F">>
      [] ch = "?" -> <<"%", "3", "F">>
      [] ch = "&" -> <<"%", "2", "6">>
      [] ch = "=" -> <<"%", "3", "D">>
      [] OTHER -> <<ch>>

RECURSIVE QueryEscape(_)
QueryEscape(s) ==
    IF s = <<>> THEN <<>> ELSE EscapedChar(Head(s)) \o QueryEscape(Tail(s))

\* Mutant of getUserToken: the stored token, when there is one, comes first.
getUserTokenStoredFirst(c, tokenOverride) ==
    IF c.accessToken # "" THEN c.accessToken
    ELSE IF Len(tokenOverride) > 0 THEN tokenOverride[1]
    ELSE ""

\* The token GetUser sends: the first override when it is not empty, else
\* the stored access token.
getUserToken(c, tokenOverride) ==
    IF Len(tokenOverride) > 0 /\ tokenOverride[1] # "" THEN tokenOverride[1]
    ELSE c.accessToken

\* json.Unmarshal into AuthUser
UnmarshalAuthUser(doc) ==
    IF doc.t = "garbage" THEN [ok |-> FALSE, val |-> NilVal]
    ELSE LET m == UnmarshalMap(doc)
         IN  [ok |-> TRUE,
              val |-> [t |-> "AuthUser", ID |-> StringField(m, "id"),
                       Email |-> StringField(m, "email")]]

\* GetUser: no request without a token.
authGetUser(c, tokenOverride, net) ==
    LET token == getUserToken(c, tokenOverride)
        headers == [h \in {"Authorization"} |-> "Bearer " \o token]
        resp == AuthDoRequest(c, "GET", MePath, NoBody, headers, net)
        user == UnmarshalAuthUser(resp.data)
    IN  IF token = ""
        THEN [c |-> c, reqs |-> <<>>, val |-> NilVal,
              err |-> DomainError("WowMySQLError",
                                  "access token is required to fetch user profile",
                                  0, EmptyMap)]
        ELSE IF resp.err.type # "nil"
        THEN [c |-> c, reqs |-> resp.reqs, val |-> NilVal, err |-> resp.err]
        ELSE IF ~user.ok
        THEN [c |-> c, reqs |-> resp.reqs, val |-> NilVal,
              err |-> PlainError("failed to parse user response")]
        ELSE [c |-> c, reqs |-> resp.reqs, val |-> user.val, err |-> NoErr]

\* json.Unmarshal into OAuthAuthorizeResponse
UnmarshalOAuthAuthorizeResponse(doc) ==
    IF doc.t = "garbage" THEN [ok |-> FALSE, val |-> NilVal]
    ELSE LET m == UnmarshalMap(doc)
         IN  [ok |-> TRUE,
              val |-> [t |-> "OAuthAuthorizeResponse",
                       AuthorizationURL |-> StringField(m, "authorization_url"),
                       Provider |-> StringField(m, "provider"),
                       RedirectURI |-> StringField(m, "redirect_uri")]]

authGetOAuthAuthorizationURL(c, provider, redirectURL, net) ==
    LET path == OAuthPrefix \o provider \o FrontendRedirectParam
                    \o QueryEscape(redirectURL)
        resp == AuthDoRequest(c, "GET", path, NoBody, NoHeaders, net)
        parsed == UnmarshalOAuthAuthorizeResponse(resp.data)
    IN  IF resp.err.type # "nil"
        THEN [c |-> c, reqs |-> resp.reqs, val |-> NilVal, err |-> resp.err]
        ELSE IF ~parsed.ok
        THEN [c |-> c, reqs |-> resp.reqs, val |-> NilVal,
              err |-> PlainError("failed to parse oauth response")]
        ELSE [c |-> c, reqs |-> resp.reqs, val |-> parsed.val, err |-> NoErr]

\* ForgotPassword and ResetPassword: a POST whose answer is decoded into a
\* map; null leaves the map nil.
authPostForMap(c, path, payload, what, net) ==
    LET resp == AuthDoRequest(c, "POST", path, JObject(payload), NoHeaders, net)
    IN  IF resp.err.type # "nil"
        THEN [c |-> c, reqs |-> resp.reqs, val |-> NilVal, err |-> resp.err]
        ELSE IF resp.data.t = "garbage"
        THEN [c |-> c, reqs |-> resp.reqs, val |-> NilVal,
              err |-> PlainError("failed to parse " \o what \o " response")]
        ELSE [c |-> c, reqs |-> resp.reqs,
              val |-> IF resp.data.t = "obj" THEN GoMap(resp.data.m) ELSE NilMap,
              err |-> NoErr]

authForgotPassword(c, email, net) ==
    authPostForMap(c, ForgotPasswordPath, [email |-> email], "forgot password", net)

authResetPassword(c, token, newPassword, net) ==
    authPostForMap(c, ResetPasswordPath, [token |-> token, new_password |-> newPassword],
                   "reset password", net)

(***************************************************************************)
(* The session specification: one caller uses the auth client, one call    *)
(* after the other.                                                        *)
(***************************************************************************)
SessionCall(op, r, args) ==
    /\ ac' = r.c
    /\ call' = [op |-> op, args |-> args]
    /\ sent' = r.reqs
    /\ ret' = [val |-> r.val, err |-> r.err]
    /\ UNCHANGED <<builderVars, sc, proc, overlap>>

SignUp(email, password, fullName, net) ==
    \E r \in {authSignUp(ac, email, password, fullName, net)} :
        SessionCall("SignUp", r, [net |-> net, fullName |-> fullName])

SignIn(email, password, net) ==
    \E r \in {authSignIn(ac, email, password, net)} :
        SessionCall("SignIn", r, [net |-> net])

ExchangeOAuthCallback(provider, code, redirectURI, net) ==
    \E r \in {authExchangeOAuthCallback(ac, provider, code, redirectURI, net)} :
        SessionCall("ExchangeOAuthCallback", r,
                    [net |-> net, redirectURI |-> redirectURI])

GetUser(tokenOverride, net) ==
    \E r \in {authGetUser(ac, tokenOverride, net)} :
        SessionCall("GetUser", r, [net |-> net, tokenOverride |-> tokenOverride])

GetOAuthAuthorizationURL(provider, redirectURL, net) ==
    \E r \in {authGetOAuthAuthorizationURL(ac, provider, redirectURL, net)} :
        SessionCall("GetOAuthAuthorizationURL", r, [net |-> net])

ForgotPassword(email, net) ==
    \E r \in {authForgotPassword(ac, email, net)} :
        SessionCall("ForgotPassword", r, [net |-> net])

ResetPassword(token, newPassword, net) ==
    \E r \in {authResetPassword(ac, token, newPassword, net)} :
        SessionCall("ResetPassword", r, [net |-> net])

GetSession ==
    /\ call' = [op |-> "GetSession"]
    /\ sent' = <<>>
    /\ ret' = [val |-> authGetSession(ac), err |-> NoErr]
    /\ UNCHANGED <<builderVars, sc, authVars>>

SetSession(accessToken, refreshToken) ==
    /\ ac' = authSetSession(ac, accessToken, refreshToken)
    /\ call' = [op |-> "SetSession", accessToken |-> accessToken,
                refreshToken |-> refreshToken]
    /\ sent' = <<>>
    /\ ret' = NoRet
    /\ UNCHANGED <<builderVars, sc, proc, overlap>>

ClearSession ==
    /\ ac' = authClearSession(ac)
    /\ call' = [op |-> "ClearSession"]
    /\ sent' = <<>>
    /\ ret' = NoRet
    /\ UNCHANGED <<builderVars, sc, proc, overlap>>

Emails == {"user@example.com"}
Passwords == {"SecurePassword123"}
FullNames == {NilPtr, PtrTo("John Doe")}
\* "github"
Providers == {<<"g", "i", "t", "h", "u", "b">>}
Codes == {"oauth-code"}
RedirectURIs == {NilPtr, PtrTo("https://app.example.com/auth/callback")}
AccessTokens == {"a1", "a2"}
RefreshTokens == {"r1", "r2"}

AuthDoc(accessToken, refreshToken) ==
    JObject([access_token |-> accessToken, refresh_token |-> refreshToken,
             token_type |-> "bearer", expires_in |-> 3600,
             user |-> [id |-> "u1", email |-> "user@example.com"]])

\* What the network gives a session call: failures, answers that are no
\* session, an answer without a refresh token, and the token pairs.
AuthNet ==
    {NetFail, ReadFail(200), Resp(401, ErrorDoc), Resp(200, Garbage),
     Resp(200, JNullDoc), Resp(200, JObject([access_token |-> "a1"]))}
        \cup {Resp(200, AuthDoc(a, r)) : a \in AccessTokens, r \in RefreshTokens}

\* "https://app.example.com/cb?x=1"
RedirectURLs ==
    {<<"h", "t", "t", "p", "s", ":", "/", "/", "a", "p", "p", ".", "e", "x", "a",
       "m", "p", "l", "e", ".", "c", "o", "m", "/", "c", "b", "?", "x", "=", "1">>}

TokenOverrides == {<<>>, <<"">>, <<"a2">>, <<"a2", "a1">>}

\* What the network gives the calls that fetch no session.
UserNet == {NetFail, Resp(401, ErrorDoc), Resp(200, Garbage),
            Resp(200, JObject([id |-> "u1", email |-> "user@example.com"]))}

NextAuth ==
    \/ \E e \in Emails, pw \in Passwords, f \in FullNames, net \in AuthNet :
          SignUp(e, pw, f, net)
    \/ \E e \in Emails, pw \in Passwords, net \in AuthNet : SignIn(e, pw, net)
    \/ \E pr \in Providers, c \in Codes, u \in RedirectURIs, net \in AuthNet :
          ExchangeOAuthCallback(pr, c, u, net)
    \/ GetSession
    \/ \E a \in AccessTokens \cup {""}, r \in RefreshTokens \cup {""} : SetSession(a, r)
    \/ ClearSession
    \/ \E o \in TokenOverrides, net \in UserNet : GetUser(o, net)
    \/ \E pr \in Providers, u \in RedirectURLs, net \in UserNet :
          GetOAuthAuthorizationURL(pr, u, net)
    \/ \E e \in Emails, net \in UserNet : ForgotPassword(e, net)
    \/ \E pw \in Passwords, net \in UserNet : ResetPassword("reset-token", pw, net)

SpecAuth == Init /\ [][NextAuth]_vars

(***************************************************************************)
(* C16: after every successful SignUp, SignIn or ExchangeOAuthCallback the *)
(* stored access and refresh tokens (as GetSession returns them) are the   *)
(* tokens of the session that call returned; so after any sequence of      *)
(* serialized calls the stored pair is that of the most recent successful  *)
(* sign-up, sign-in or OAuth exchange, SetSession or ClearSession.         *)
(***************************************************************************)
SessionCalls == {"SignUp", "SignIn", "ExchangeOAuthCallback"}

StoredPair == <<ac.accessToken, ac.refreshToken>>

\* What one call does to the stored pair.
C16_Step ==
    /\ (call'.op \in SessionCalls /\ ret'.err.type = "nil") =>
          /\ StoredPair' = <<ret'.val.Session.AccessToken,
                             ret'.val.Session.RefreshToken>>
          /\ authGetSession(ac').AccessToken = ret'.val.Session.AccessToken
          /\ authGetSession(ac').RefreshToken = ret'.val.Session.RefreshToken
    /\ (call'.op \in SessionCalls /\ ret'.err.type # "nil") =>
          StoredPair' = StoredPair
    /\ call'.op = "SetSession" =>
          StoredPair' = <<call'.accessToken, call'.refreshToken>>
    /\ call'.op = "ClearSession" => StoredPair' = <<"", "">>
    /\ call'.op = "GetSession" =>
          /\ StoredPair' = StoredPair
          /\ <<ret'.val.AccessToken, ret'.val.RefreshToken>> = StoredPair

C16_StoredSessionFollowsCalls == [][C16_Step]_vars

\* An OAuth exchange answered with the pair (a2, r1): that pair is stored.
C16_Witness ==
    /\ call.op = "ExchangeOAuthCallback"
    /\ ret.err.type = "nil"
    /\ ret.val.Session.AccessToken = "a2"
    /\ ret.val.Session.RefreshToken = "r1"
    /\ StoredPair = <<"a2", "r1">>

(***************************************************************************)
(* The race specification: two callers use one auth client at once.  A     *)
(* session call is the request with its answer, then the two assignments   *)
(* of persistSession, each a step of its own: nothing orders them against  *)
(* the assignments of the other caller.                                    *)
(***************************************************************************)
\* What an unsynchronized write of a string may leave behind when another
\* write of the same field is under way: the value, or a torn string.
TornString == "<torn>"

RacingWrite(value, racing) == IF racing THEN {value, TornString} ELSE {value}

OtherCallers(p) == Callers \ {p}

\* The request of caller p's call and its answer; a failed call returns here.
SessionCallBegin(p, op, r) ==
    /\ proc[p].pc = "idle"
    /\ proc' = [proc EXCEPT ![p] =
                    IF r.ok THEN [pc |-> "persistAccess", op |-> op, result |-> r.val]
                    ELSE IdleCall]
    /\ overlap' = (overlap \/ \E q \in OtherCallers(p) : proc[q].pc # "idle")
    /\ call' = [op |-> op, caller |-> p, step |-> "request"]
    /\ sent' = r.reqs
    /\ ret' = IF r.ok THEN NoRet ELSE [val |-> NilVal, err |-> r.err]
    /\ UNCHANGED <<builderVars, sc, ac>>

SignUpBegin(p, email, password, fullName, net) ==
    \E r \in {signUpFetch(ac, email, password, fullName, net)} :
        SessionCallBegin(p, "SignUp", r)

SignInBegin(p, email, password, net) ==
    \E r \in {signInFetch(ac, email, password, net)} :
        SessionCallBegin(p, "SignIn", r)

ExchangeOAuthCallbackBegin(p, provider, code, redirectURI, net) ==
    \E r \in {exchangeFetch(ac, provider, code, redirectURI, net)} :
        SessionCallBegin(p, "ExchangeOAuthCallback", r)

\* c.accessToken = session.AccessToken, by caller p
PersistAccessToken(p) ==
    /\ proc[p].pc = "persistAccess"
    /\ \E v \in RacingWrite(persistAccess(ac, proc[p].result.Session).accessToken,
                             \E q \in OtherCallers(p) : proc[q].pc = "persistAccess") :
          ac' = [ac EXCEPT !.accessToken = v]
    /\ proc' = [proc EXCEPT ![p].pc = "persistRefresh"]
    /\ call' = [op |-> proc[p].op, caller |-> p, step |-> "persistAccess"]
    /\ sent' = <<>>
    /\ ret' = NoRet
    /\ UNCHANGED <<builderVars, sc, overlap>>

\* c.refreshToken = session.RefreshToken, by caller p; the call returns.
PersistRefreshToken(p) ==
    /\ proc[p].pc = "persistRefresh"
    /\ \E v \in RacingWrite(persistRefresh(ac, proc[p].result.Session).refreshToken,
                             \E q \in OtherCallers(p) : proc[q].pc = "persistRefresh") :
          ac' = [ac EXCEPT !.refreshToken = v]
    /\ proc' = [proc EXCEPT ![p] = IdleCall]
    /\ call' = [op |-> proc[p].op, caller |-> p, step |-> "return"]
    /\ sent' = <<>>
    /\ ret' = [val |-> proc[p].result, err |-> NoErr]
    /\ UNCHANGED <<builderVars, sc, overlap>>

\* The answers of the server: a failure, or one of two sessions.
RaceNet == {NetFail, Resp(401, ErrorDoc),
            Resp(200, AuthDoc("a1", "r1")), Resp(200, AuthDoc("a2", "r2"))}

NextAuthRace ==
    \/ \E p \in Callers, e \in Emails, pw \in Passwords, net \in RaceNet :
          SignUpBegin(p, e, pw, NilPtr, net)
    \/ \E p \in Callers, e \in Emails, pw \in Passwords, net \in RaceNet :
          SignInBegin(p, e, pw, net)
    \/ \E p \in Callers, pr \in Providers, c \in Codes, net \in RaceNet :
          ExchangeOAuthCallbackBegin(p, pr, c, NilPtr, net)
    \/ \E p \in Callers : PersistAccessToken(p)
    \/ \E p \in Callers : PersistRefreshToken(p)

SpecAuthRace == Init /\ [][NextAuthRace]_vars

(***************************************************************************)
(* C17: two SignIn (or SignUp / ExchangeOAuthCallback) calls running       *)
(* concurrently on one AuthClient race on the stored session: a state is   *)
(* reachable in which the stored access token comes from one response and  *)
(* the stored refresh token from the other; when the calls are serialized  *)
(* no such mixed pair is reachable.                                        *)
(***************************************************************************)
AllIdle == \A p \in Callers : proc[p].pc = "idle"

\* The access token of one session of RaceNet with the refresh token of the
\* other.
MixedPair == StoredPair \in {<<"a1", "r2">>, <<"a2", "r1">>}

\* With no call in progress, a mixed pair is stored only if two calls were
\* in progress at once.
C17_MixedOnlyWhenConcurrent == (AllIdle /\ MixedPair) => overlap

\* Both calls have returned, one with (a1, r1) and one with (a2, r2), and the
\* client holds a1 with r2.
C17_Witness ==
    /\ AllIdle
    /\ overlap
    /\ StoredPair = <<"a1", "r2">>
    /\ call.step = "return"
    /\ ret.val.Session.AccessToken # ret.val.Session.RefreshToken

(***************************************************************************)
(* C20: Table.Get() builds a builder with the same state as                *)
(* Table.Select("*"), and Table.GetByID(id) a builder with the same state  *)
(* as Select("*").Eq("id", id).Limit(1): columns ["*"], the single filter  *)
(* {id, eq, id-value}, limit 1, no order, no offset.                       *)
(***************************************************************************)
\* The state of a builder of this table that selects "*" and nothing else.
SelectsAll(q, tableName) ==
    /\ q.tableName = tableName
    /\ q.columns = <<"*">>
    /\ q.orderColumn = ""
    /\ q.orderDirection = ""
    /\ q.offsetValue = NilPtr

\* The history of the builder is the chain of GetByID.
BuiltByGetByID ==
    /\ Len(hist) = 3
    /\ hist[1] = [op |-> "Select", columns |-> <<"*">>]
    /\ hist[2].op = "Eq" /\ hist[2].column = "id"
    /\ hist[3] = [op |-> "Limit", n |-> 1]

C20_GetAndGetByIDState ==
    /\ call.op \in {"Table.Get", "Table.Select"} /\ hist[1].columns = <<"*">> =>
          /\ SelectsAll(qb, qb.tableName)
          /\ qb.filters = <<>>
          /\ qb.limitValue = NilPtr
    /\ call.op = "Table.GetByID" =>
          /\ SelectsAll(qb, call.tableName)
          /\ qb.filters = <<FilterExpression("id", "eq", call.id)>>
          /\ qb.limitValue = PtrTo(1)
    \* what Execute sends for the builder of GetByID
    /\ call.op = "Execute" /\ BuiltByGetByID =>
          /\ Len(sent) = 1
          /\ DOMAIN BodyOf(sent[1]) = {"columns", "filters", "limit"}
          /\ BodyOf(sent[1])["columns"] = <<"*">>
          /\ BodyOf(sent[1])["limit"] = 1
          /\ Len(BodyOf(sent[1])["filters"]) = 1
          /\ BodyOf(sent[1])["filters"][1]["column"] = "id"
          /\ BodyOf(sent[1])["filters"][1]["operator"] = "eq"
          /\ EntryValue(BodyOf(sent[1])["filters"][1]) = hist[2].value

\* GetByID has built a builder for a string id.
C20_Witness ==
    /\ call.op = "Table.GetByID"
    /\ call.id = JStr("abc")
    /\ Len(qb.filters) = 1
    /\ qb.limitValue # NilPtr

\* Get has built a builder.
C20_WitnessGet == call.op = "Table.Get" /\ qb.columns = <<"*">>

(***************************************************************************)
(* The table specification: the Table entry points with two builders in    *)
(* use at once, the one under construction and the one held from an        *)
(* earlier Table call, and UpdateByID / DeleteByID beside them.            *)
(***************************************************************************)
NextTables ==
    \/ \E t \in TableNames : TableWhere(t)
    \/ \E t \in TableNames : TableSelect(t, <<"*">>)
    \/ \E t \in TableNames : SecondWhere(t)
    \/ \E t \in TableNames : SecondSelect(t, <<"a", "b">>)
    \/ \E a \in EqArgs : Eq(a[1], a[2])
    \/ Select(<<"a", "b">>)
    \/ Limit(5)
    \/ \E net \in QueryNet : Execute(net)
    \/ \E t \in TableNames, id \in IdValues, d \in UpdateData, net \in WriteNet :
          UpdateByID(t, id, d, net)
    \/ \E t \in TableNames, id \in IdValues, net \in WriteNet : DeleteByID(t, id, net)

SpecTables == Init /\ [][NextTables]_vars

(***************************************************************************)
(* C21: Table.UpdateByID(id, data) and Table.DeleteByID(id) each run on a  *)
(* fresh builder whose only filter is {column id, operator eq, value id},  *)
(* so the `filters` list of the request body has exactly that one entry;   *)
(* Table.Where() returns a builder with no columns, no filters, no order,  *)
(* no limit and no offset; builders returned by separate Table calls share *)
(* no state: a mutator call on one never changes the body built by         *)
(* another.                                                                *)
(***************************************************************************)
ByIDOps == {"UpdateByID", "DeleteByID"}

MutatorOps == FilterMutators \cup {"Select", "OrderBy", "Limit", "Offset"}

\* The one filter of a request issued for this id.
OnlyIDFilter(req, id) ==
    /\ "filters" \in DOMAIN BodyOf(req)
    /\ Len(BodyOf(req)["filters"]) = 1
    /\ BodyOf(req)["filters"][1]["column"] = "id"
    /\ BodyOf(req)["filters"][1]["operator"] = "eq"
    /\ EntryValue(BodyOf(req)["filters"][1]) = id

C21_Step ==
    /\ call'.op \in ByIDOps =>
          /\ Len(sent') = 1
          /\ OnlyIDFilter(sent'[1], call'.id)
          /\ qb' = qb
          /\ held' = held
    /\ call'.op = "Table.Where" =>
          /\ qb'.columns = <<>>
          /\ qb'.filters = <<>>
          /\ qb'.orderColumn = ""
          /\ qb'.limitValue = NilPtr
          /\ qb'.offsetValue = NilPtr
    /\ call'.op \in {"Table.Where", "Table.Select"} /\ "second" \in DOMAIN call' =>
          buildQueryBody(held') = buildQueryBody(qb)
    /\ call'.op \in MutatorOps => buildQueryBody(held') = buildQueryBody(held)

C21_ByIDAndSeparateBuilders == [][C21_Step]_vars

\* UpdateByID has sent its one filter while two other builders, with two
\* filters and with one, are in use.
C21_Witness ==
    /\ call.op = "UpdateByID"
    /\ Len(sent) = 1
    /\ Len(WireFilters(BodyOf(sent[1]))) = 1
    /\ Len(qb.filters) = 2
    /\ Len(held.filters) = 1

\* A mutator has changed the builder under construction while the held
\* builder, of a separate Table call, builds another body.
C21_WitnessMutator ==
    /\ call.op = "Eq"
    /\ Len(qb.filters) = 1
    /\ Len(held.filters) = 2
    /\ buildQueryBody(held) # buildQueryBody(qb)

(***************************************************************************)
(* C22: every StorageLimitExceededError shows its byte counts in           *)
(* human-formatted form (such as "1.50 MB") in its display text, alongside *)
(* the raw integer fields RequiredBytes and AvailableBytes, for every      *)
(* value of the two counts and for both the locally raised and the         *)
(* server-reported (413) error.                                            *)
(***************************************************************************)
LimitExceeded == call.op = "Upload" /\ ret.err.type = "StorageLimitExceededError"

\* The display text holds both formatted counts: as pieces of their own, or
\* inside the message Upload writes.
ShowsFormattedCounts(e) ==
    LET text == StorageLimitExceededErrorText(e)
    IN  \/ /\ \E i \in 1..Len(text) : text[i] = formatBytes(e.RequiredBytes)
           /\ \E i \in 1..Len(text) : text[i] = formatBytes(e.AvailableBytes)
        \/ \E i \in 1..Len(text) :
              text[i] = LimitExceededMessage(e.RequiredBytes, e.AvailableBytes)

C22_FormattedCountsShown == LimitExceeded => ShowsFormattedCounts(ret.err)

\* What the code does: the error Upload raises itself always shows both
\* counts, zero or negative available bytes included.
C22_LocalCountsShown ==
    LimitExceeded /\ UploadRequests = {} => ShowsFormattedCounts(ret.err)

\* The error of a 413 answer to a three-byte upload: its text is the prefix
\* and the server's message, with no byte count.
C22_ServerTextWithoutCounts ==
    /\ LimitExceeded
    /\ UploadAnswered413
    /\ Len(call.fileData) = 3
    /\ StorageLimitExceededErrorText(ret.err)
         = <<"StorageLimitExceededError: ", "no such table">>

\* The locally raised error with no byte available: the counts are shown by
\* the message alone.
C22_LocalZeroAvailable ==
    /\ LimitExceeded
    /\ UploadRequests = {}
    /\ ret.err.AvailableBytes = 0
    /\ Len(StorageLimitExceededErrorText(ret.err)) = 2

(***************************************************************************)
(* The error specification with the auth client: SpecErr, and a SignIn     *)
(* answered by the same network.                                           *)
(***************************************************************************)
NextErrAuth ==
    \/ NextErr
    \/ Idle /\ \E e \in Emails, pw \in Passwords, net \in ErrNet : SignIn(e, pw, net)

SpecErrAuth == Init /\ [][NextErrAuth]_vars

(***************************************************************************)
(* C23: a connectivity failure (the HTTP call returns no response)         *)
(* surfaces as a transport error that wraps the underlying cause and is    *)
(* distinguishable from every status-classified domain error, a domain     *)
(* error with an empty message included: in the data and auth clients it   *)
(* is a NetworkError, never a WowMySQLError; in the storage client it is   *)
(* an error distinguishable from a StorageError of parseStorageError.      *)
(***************************************************************************)
AuthOps == {"SignIn"}

\* What the network gave the call.
CallNet == IF "net" \in DOMAIN call THEN call.net ELSE call.args.net

NetworkedCall == call.op \in DataOps \cup StorageOps \cup AuthOps

DomainErrorTypes ==
    {"WowMySQLError", "AuthenticationError", "NotFoundError", "RateLimitError"}

\* Every error the two parsers can build from the answers of ErrNet.
ClassifiedErrors ==
    {parseError(s, b) : s \in ErrStatuses, b \in ErrBodies}
        \cup {parseStorageError(s, b) : s \in ErrStatuses, b \in ErrBodies}

C23_TransportErrorDistinct ==
    NetworkedCall =>
        /\ (CallNet.kind = "fail" /\ call.op \in DataOps \cup AuthOps) =>
              /\ ret.err.type = "NetworkError"
              /\ ret.err.type \notin DomainErrorTypes
              /\ ret.err.Err = CallNet.cause
        /\ (CallNet.kind = "fail" /\ call.op \in StorageOps) =>
              /\ ret.err.type = "StorageError"
              /\ ret.err.Err = PlainError(CallNet.cause)
              /\ ret.err.StatusCode = 0
              /\ \A s \in ErrStatuses, b \in ErrBodies :
                    LET e == parseStorageError(s, b)
                    IN  e.type = "StorageError" =>
                            e.Err = NoErr /\ e.StatusCode # 0 /\ e # ret.err
        /\ CallNet.kind = "fail" => ret.err \notin ClassifiedErrors
        /\ (CallNet.kind = "resp" /\ CallNet.status \notin 200..299) =>
              /\ ret.err \in ClassifiedErrors
              /\ ret.err.type # "NetworkError"
              /\ ret.err.type = "StorageError" => ret.err.Err = NoErr

\* SignIn met a connectivity failure and returned a NetworkError with the
\* cause.
C23_Witness ==
    /\ call.op = "SignIn"
    /\ CallNet.kind = "fail"
    /\ ret.err = NetworkError("dial tcp: connection refused")

\* The storage client met a connectivity failure.
C23_WitnessStorage ==
    /\ call.op = "GetQuota"
    /\ CallNet.kind = "fail"
    /\ ret.err.type = "StorageError"
    /\ ret.err.Message = ""

\* A domain error without a message, of the data and of the storage client.
C23_WitnessEmptyMessage ==
    /\ call.op \in {"Execute", "DeleteFile"}
    /\ CallNet.kind = "resp"
    /\ ret.err.type \in {"WowMySQLError", "StorageError"}
    /\ ret.err.Message = ""

(***************************************************************************)
(* The header specification: one call of any client, the auth client       *)
(* built with or without a public key.                                     *)
(***************************************************************************)
PublicKeys == {"", "public-api-key"}

NextHeaders ==
    \/ NextErr
    \/ Idle /\ \E k \in PublicKeys :
                  NewAuthClient(AuthConfig(ReadmeProjectURL, <<>>, TRUE, 0, k))
    \/ Idle /\ \E d \in Payloads, k \in FileKeys, ct \in ContentTypes,
                  cq \in CheckQuotas, nq \in QuotaNet, nu \in UploadNet :
                    Upload(d, k, ct, cq, nq, nu)
    \/ Idle /\ \E e \in Emails, pw \in Passwords, f \in FullNames, net \in AuthNet :
                  SignUp(e, pw, f, net)
    \/ Idle /\ \E e \in Emails, pw \in Passwords, net \in AuthNet : SignIn(e, pw, net)
    \/ Idle /\ \E pr \in Providers, c \in Codes, u \in RedirectURIs, net \in AuthNet :
                  ExchangeOAuthCallback(pr, c, u, net)
    \/ Idle /\ \E o \in TokenOverrides, net \in AuthNet : GetUser(o, net)
    \/ Idle /\ \E pr \in Providers, u \in RedirectURLs, net \in AuthNet :
                  GetOAuthAuthorizationURL(pr, u, net)
    \/ Idle /\ \E e \in Emails, net \in AuthNet : ForgotPassword(e, net)
    \/ Idle /\ \E pw \in Passwords, net \in AuthNet : ResetPassword("reset-token", pw, net)

SpecHeaders == Init /\ [][NextHeaders]_vars

(***************************************************************************)
(* C24: every request issued by the data client and the storage client     *)
(* (JSON requests and the multipart upload alike) carries the header       *)
(* Authorization: Bearer {api-key}; every request issued by the auth       *)
(* client carries the header X-Wow-Public-Key with the configured public   *)
(* key.                                                                    *)
(***************************************************************************)
AuthClientOps ==
    {"SignUp", "SignIn", "ExchangeOAuthCallback", "GetUser",
     "GetOAuthAuthorizationURL", "ForgotPassword", "ResetPassword"}

KeyedOps == DataOps \cup StorageOps \cup {"Upload"}

HasHeader(req, name, value) ==
    name \in DOMAIN req.header /\ req.header[name] = value

C24_CredentialHeaders ==
    \A i \in 1..Len(sent) :
        /\ call.op \in KeyedOps =>
              HasHeader(sent[i], "Authorization", "Bearer " \o apiKey)
        /\ call.op \in AuthClientOps =>
              HasHeader(sent[i], "X-Wow-Public-Key", ac.publicKey)

\* What the code does: the public key header is sent iff the key is not
\* empty.
C24_PublicKeyWhenSet ==
    \A i \in 1..Len(sent) :
        /\ call.op \in KeyedOps =>
              HasHeader(sent[i], "Authorization", "Bearer " \o apiKey)
        /\ (call.op \in AuthClientOps /\ ac.publicKey # "") =>
              HasHeader(sent[i], "X-Wow-Public-Key", ac.publicKey)
        /\ (call.op \in AuthClientOps /\ ac.publicKey = "") =>
              "X-Wow-Public-Key" \notin DOMAIN sent[i].header

\* SignIn on a client built without a public key: the request has no
\* X-Wow-Public-Key header.
C24_NoPublicKeyHeader ==
    /\ call.op = "SignIn"
    /\ ac.publicKey = ""
    /\ Len(sent) = 1
    /\ DOMAIN sent[1].header = {"Content-Type"}

\* The multipart upload carries the bearer key.
C24_UploadKeyed ==
    /\ call.op = "Upload"
    /\ UploadRequests # {}
    /\ \A i \in UploadRequests : HasHeader(sent[i], "Authorization", "Bearer " \o apiKey)

(***************************************************************************)
(* C25: when a StorageQuota is built from wire data, StorageQuotaBytes,    *)
(* StorageUsedBytes and StorageAvailableBytes are each set once, at        *)
(* deserialization, to the corresponding GB field times 2^30 truncated to  *)
(* an integer (for whole-GB inputs: exactly GB * 1073741824), and no later *)
(* read or operation of the SDK recomputes or changes them.                *)
(***************************************************************************)
Abs(n) == IF n < 0 THEN -n ELSE n

\* b is gb * 2^30 truncated towards zero, for gb = n / 2^e: stated without
\* the product, which need not be an integer.
IsTruncatedBytes(b, gb) ==
    IF gb[2] <= 30
    THEN /\ b % 2^(30 - gb[2]) = 0
         /\ b \div 2^(30 - gb[2]) = gb[1]
    ELSE /\ Abs(b) * 2^(gb[2] - 30) <= Abs(gb[1])
         /\ Abs(gb[1]) < (Abs(b) + 1) * 2^(gb[2] - 30)
         /\ (b > 0 => gb[1] > 0)
         /\ (b < 0 => gb[1] < 0)

\* The answer is a quota document, or null, which decodes as a quota as well.
QuotaAnswered(net) ==
    net.kind = "resp" /\ net.status \in 200..299 /\ net.body.t \in {"obj", "null"}

\* The GB field of the answer; 0 when the answer does not have it.
WireGB(net, k) ==
    IF net.body.t = "obj" /\ k \in DOMAIN net.body.m THEN net.body.m[k] ELSE <<0, 0>>

C25_BytesDerivedOnce ==
    /\ (call.op = "GetQuota" /\ QuotaAnswered(call.net)) =>
          LET q == ret.val
          IN  /\ ret.err = NoErr
              /\ IsTruncatedBytes(q.StorageQuotaBytes, q.StorageQuotaGB)
              /\ IsTruncatedBytes(q.StorageUsedBytes, q.StorageUsedGB)
              /\ IsTruncatedBytes(q.StorageAvailableBytes, q.StorageAvailableGB)
              /\ q.StorageQuotaGB = WireGB(call.net, "storage_quota_gb")
              /\ q.StorageUsedGB = WireGB(call.net, "storage_used_gb")
              /\ q.StorageAvailableGB = WireGB(call.net, "storage_available_gb")
              /\ (q.StorageQuotaGB = <<1, 0>> => q.StorageQuotaBytes = 1073741824)
    \* Upload reads the count GetQuota derived and hands it on unchanged.
    /\ (call.op = "Upload" /\ ret.err.type = "StorageLimitExceededError"
            /\ UploadRequests = {}) =>
          /\ QuotaAnswered(call.netQuota)
          /\ IsTruncatedBytes(ret.err.AvailableBytes,
                              WireGB(call.netQuota, "storage_available_gb"))

\* GetQuota has decoded 1 GB, 0.5 GB and minus two and a half bytes.
C25_Witness ==
    /\ call.op = "GetQuota"
    /\ ret.err = NoErr
    /\ ret.val.StorageQuotaBytes = 1073741824
    /\ ret.val.StorageUsedBytes = 536870912
    /\ ret.val.StorageAvailableGB = <<-5, 31>>
    /\ ret.val.StorageAvailableBytes = -2

(***************************************************************************)
(* C26: StorageClient.FileExists(key) returns (false, no error) when the   *)
(* file-info request is answered with status 404, (true, no error) when it *)
(* is answered with a 2xx status, and an error for every other failure.    *)
(***************************************************************************)
FileExistsAnswered == call.op = "FileExists" /\ call.net.kind = "resp"

C26_FileExistsByStatus ==
    call.op = "FileExists" =>
        /\ (FileExistsAnswered /\ call.net.status = 404) =>
              ret.val = FALSE /\ ret.err = NoErr
        /\ (FileExistsAnswered /\ call.net.status \in 200..299) =>
              ret.val = TRUE /\ ret.err = NoErr
        /\ (~FileExistsAnswered \/ call.net.status \notin (200..299) \cup {404}) =>
              ret.err # NoErr

\* What the code does: every answer outside 2xx is an error, 404 included,
\* and a 2xx answer means true iff its body can be decoded.
C26_FileExistsIffDecoded ==
    call.op = "FileExists" =>
        /\ Len(sent) = 1
        /\ (FileExistsAnswered /\ call.net.status \in 200..299
                /\ call.net.body.t # "garbage") =>
              ret.val = TRUE /\ ret.err = NoErr
        /\ (FileExistsAnswered /\ call.net.status \in 200..299
                /\ call.net.body.t = "garbage") =>
              ret.val = FALSE /\ ret.err = PlainError("failed to parse response")
        /\ (FileExistsAnswered /\ call.net.status \notin 200..299) =>
              /\ ret.val = FALSE
              /\ ret.err = parseStorageError(call.net.status, call.net.body)
        /\ ~FileExistsAnswered => ret.val = FALSE /\ ret.err # NoErr

\* The file-info request was answered 404 and FileExists returned the
\* StorageError.
C26_NotFoundIsError ==
    /\ FileExistsAnswered
    /\ call.net.status = 404
    /\ ret.val = FALSE
    /\ ret.err.type = "StorageError"
    /\ ret.err.StatusCode = 404

(***************************************************************************)
(* C27: Execute, Get, Update and Delete leave the builder's state          *)
(* (columns, filters, order, limit, offset) unchanged, so repeating a      *)
(* terminal call on the same builder sends an identical body; First        *)
(* changes only the limit and leaves columns, filters, order and offset    *)
(* unchanged.                                                              *)
(***************************************************************************)
ReadOnlyTerminals == {"Execute", "Get", "Update", "Delete"}

\* The same terminal call as the one before, with the same argument.
RepeatedTerminal ==
    /\ call.op \in ReadOnlyTerminals
    /\ call'.op = call.op
    /\ call.op = "Update" => call'.data = call.data
    /\ Len(sent) = 1
    /\ Len(sent') = 1

C27_Step ==
    /\ call'.op \in ReadOnlyTerminals => qb' = qb
    /\ RepeatedTerminal => sent'[1].body = sent[1].body
    /\ call'.op = "First" =>
          /\ qb'.tableName = qb.tableName
          /\ qb'.columns = qb.columns
          /\ qb'.filters = qb.filters
          /\ qb'.orderColumn = qb.orderColumn
          /\ qb'.orderDirection = qb.orderDirection
          /\ qb'.offsetValue = qb.offsetValue
          /\ qb'.limitValue = PtrTo(1)

C27_TerminalsKeepBuilder == [][C27_Step]_vars

\* First has run on a builder with a filter, a limit and an offset: the
\* builder holds limit 1 and the offset it had.
C27_Witness ==
    /\ call.op = "First"
    /\ Len(sent) = 1
    /\ qb.offsetValue # NilPtr
    /\ qb.limitValue = PtrTo(1)
    /\ HasCall("Offset")
    /\ "offset" \in DOMAIN BodyOf(sent[1])

\* Delete has run on a builder with two filters, which it still holds.
C27_WitnessDelete ==
    /\ call.op = "Delete"
    /\ Len(sent) = 1
    /\ Len(qb.filters) = 2
    /\ Len(WireFilters(BodyOf(sent[1]))) = 2

(***************************************************************************)
(* C28: when the quota pre-check is in effect and the quota request itself *)
(* fails (error response or connectivity failure), Upload returns that     *)
(* error and issues no request to /api/v1/storage/upload.                  *)
(***************************************************************************)
\* The pre-check is in effect and GetQuota returned an error.
QuotaRequestFailed ==
    /\ call.op = "Upload"
    /\ shouldCheck(sc, call.checkQuota)
    /\ storageGetQuota(call.netQuota).err.type # "nil"

C28_QuotaErrorStopsUpload ==
    QuotaRequestFailed =>
        /\ ret.val = NilVal
        /\ ret.err = storageGetQuota(call.netQuota).err
        /\ UploadRequests = {}
        /\ Len(sent) = 1
        /\ sent[1].url = projectURL \o "/api/v1/storage/quota"

\* The quota request of an Upload with the pre-check met a connectivity
\* failure, although the upload itself would have succeeded.
C28_Witness ==
    /\ QuotaRequestFailed
    /\ call.netQuota.kind = "fail"
    /\ call.netUpload = Resp(200, UploadDoc)
    /\ Len(call.fileData) = 3
    /\ ret.err.type = "StorageError"
    /\ UploadRequests = {}

\* The quota request was answered 500.
C28_WitnessErrorResponse ==
    /\ QuotaRequestFailed
    /\ call.netQuota = Resp(500, ErrorDoc)
    /\ ret.err.StatusCode = 500
    /\ UploadRequests = {}

(***************************************************************************)
(* C29: a SignUp, SignIn or ExchangeOAuthCallback call that fails          *)
(* (connectivity failure, non-2xx response, or undecodable success body)   *)
(* leaves the AuthClient's stored access and refresh tokens exactly as     *)
(* they were before the call; GetUser, GetOAuthAuthorizationURL,           *)
(* ForgotPassword and ResetPassword never change them.                     *)
(***************************************************************************)
SessionFreeCalls ==
    {"GetUser", "GetOAuthAuthorizationURL", "ForgotPassword", "ResetPassword"}

C29_Step ==
    /\ (call'.op \in SessionCalls /\ ret'.err # NoErr) =>
          /\ ac'.accessToken = ac.accessToken
          /\ ac'.refreshToken = ac.refreshToken
    /\ call'.op \in SessionFreeCalls =>
          /\ ac'.accessToken = ac.accessToken
          /\ ac'.refreshToken = ac.refreshToken

C29_TokensKeptOnFailure == [][C29_Step]_vars

\* A SignIn whose success body could not be decoded has failed on a client
\* that holds a session, and the client holds it still.
C29_Witness ==
    /\ call.op = "SignIn"
    /\ call.args.net = Resp(200, Garbage)
    /\ ret.err = PlainError("failed to parse login response")
    /\ StoredPair = <<"a1", "r1">>

\* GetUser has succeeded on a client that holds a session.
C29_WitnessGetUser ==
    /\ call.op = "GetUser"
    /\ ret.err = NoErr
    /\ StoredPair = <<"a1", "r1">>

(***************************************************************************)
(* C30: GetUser sends its request with the bearer token equal to the first *)
(* override argument when that is non-empty and to the stored access token *)
(* otherwise; when both are empty (for example after ClearSession or       *)
(* before any sign-in) it returns an error without issuing any request.    *)
(***************************************************************************)
\* The first override argument; empty when there is none.
FirstOverride ==
    IF call.args.tokenOverride = <<>> THEN "" ELSE call.args.tokenOverride[1]

C30_GetUserToken ==
    call.op = "GetUser" =>
        /\ (FirstOverride # "") =>
              /\ Len(sent) = 1
              /\ HasHeader(sent[1], "Authorization", "Bearer " \o FirstOverride)
        /\ (FirstOverride = "" /\ ac.accessToken # "") =>
              /\ Len(sent) = 1
              /\ HasHeader(sent[1], "Authorization", "Bearer " \o ac.accessToken)
        /\ (FirstOverride = "" /\ ac.accessToken = "") =>
              /\ sent = <<>>
              /\ ret.val = NilVal
              /\ ret.err.type = "WowMySQLError"
        /\ sent # <<>> => sent[1].method = "GET" /\ sent[1].url = ac.baseURL \o MePath

\* GetUser with the override "a2" on a client that holds "a1".
C30_Witness ==
    /\ call.op = "GetUser"
    /\ ac.accessToken = "a1"
    /\ FirstOverride = "a2"
    /\ Len(sent) = 1
    /\ sent[1].header["Authorization"] = "Bearer a2"

\* GetUser without a token, after ClearSession or before any sign-in: an
\* error and no request.
C30_WitnessNoToken ==
    /\ call.op = "GetUser"
    /\ ac.accessToken = ""
    /\ call.args.tokenOverride = <<"">>
    /\ sent = <<>>
    /\ ret.err.Message = "access token is required to fetch user profile"

\* GetUser with the stored token.
C30_WitnessStored ==
    /\ call.op = "GetUser"
    /\ call.args.tokenOverride = <<>>
    /\ ac.accessToken = "a1"
    /\ Len(sent) = 1
    /\ sent[1].header["Authorization"] = "Bearer a1"

====
